---- MODULE Spec2Model ----
(***************************************************************************)
(* Tram line simulation (src/tram_simulation.py) as a state machine.       *)
(*                                                                         *)
(* The program is a set of SimPy processes (the dispatcher tram_generator, *)
(* one tram_process per launched trip, one arrive_at_stop per stop visit)  *)
(* multiplexed by the SimPy event loop started in run_simulation.  One     *)
(* action of the model is one step of that loop: the event with the least  *)
(* (time, priority, event id) is removed from the heap, the clock is set   *)
(* to its time and its callbacks run, which resumes the process waiting    *)
(* for it up to its next yield.                                            *)
(*                                                                         *)
(* Time is counted in ticks of 0.05 minute (the dwell time per passenger,  *)
(* line 290), so every delay of the program is a whole number of ticks.    *)
(* Rates are kept as exact fractions.                                      *)
(***************************************************************************)
EXTENDS Integers, Sequences, FiniteSets, TLC

\* ------------------------------------------------------------------ bounds

\* Number of trams of the fleet (create_initial_trams is called with 8).
FleetSize == 2

\* Largest value a draw of new passengers takes (random.gauss is unbounded).
MaxNew == 2

\* Largest onboard count and longest line for which alight_passengers is
\* evaluated on its own.
MaxLoad == 100

MaxStops == 4

\* Number of interrupts sent to trip processes from outside in one run.
MaxInterrupts == 1

\* Longest rule list and latest start hour for which get_current_interval
\* is evaluated on its own.
MaxRules == 3

MaxHour == 3

\* Longest hop, in units of 250 metres, for which calculate_travel_time is
\* evaluated on its own.
MaxHop == 4

\* ------------------------------------------------------- program constants

TicksPerMinute == 20

TicksPerHour == 60 * TicksPerMinute

\* env.timeout(2.0) between the two legs.
TurnaroundTime == 2 * TicksPerMinute

\* SimPy event priorities: Initialize events and the until-event are URGENT.
URGENT == 0

NORMAL == 1

\* random.uniform(0.95, 1.05), in percent: the two ends of the interval.
SpeedVariation == {95, 105}

\* road_loads.get(hour, 0.5), in percent.
DefaultLoad == 50

\* ----------------------------------------------------------- configuration

\* A configuration file as read by load_config.  Times are in ticks, the
\* distances in metres, the speed in km/h, the road load in percent, the
\* headway of a rule in minutes; distance, intensity and road_loads are the
\* lists of the file, looked up with a default as the code does.
BaseConfig ==
    [ stop_number       |-> 2,
      distance          |-> {<<1, 0>>, <<2, 0>>},
      flow_speed        |-> 40,
      peak_stop         |-> 2,
      tram_capacity     |-> 2,
      simulation_hours  |-> 1,
      acceleration_time |-> 10,
      stop_time         |-> 20,
      intensity         |-> {},
      bus_interval      |-> << <<0, 25>> >>,
      road_loads        |-> {} ]

\* Passengers at the far terminal: two trips and a third one cut by the
\* horizon.
ConfigPassengers ==
    [BaseConfig EXCEPT !.intensity = {<<2, 0, 120>>},
                       !.bus_interval = << <<0, 29>> >>]

\* Passengers at the first stop, which is also the peak stop.
ConfigFirstStop ==
    [BaseConfig EXCEPT !.intensity = {<<1, 0, 60>>},
                       !.peak_stop = 1,
                       !.bus_interval = << <<0, 29>> >>]

\* Zero headway: the dispatcher drains the pool at time 0 and then waits
\* for every release; all trams reach every stop at the same time.
ConfigZeroHeadway ==
    [BaseConfig EXCEPT !.bus_interval = << <<0, 0>> >>,
                       !.stop_time = 100]

\* Headway shorter than a round trip: the pool runs empty now and then.
ConfigShortHeadway ==
    [BaseConfig EXCEPT !.bus_interval = << <<0, 15>> >>,
                       !.stop_time = 200,
                       !.acceleration_time = 0]

\* Positive distances: the travel time depends on the speed variation.
ConfigTravel ==
    [BaseConfig EXCEPT !.distance = {<<1, 0>>, <<2, 500>>},
                       !.bus_interval = << <<0, 50>> >>,
                       !.road_loads = {<<0, 50>>}]

\* A capacity below zero, which load_config accepts as it is.
ConfigBadCapacity ==
    [BaseConfig EXCEPT !.tram_capacity = -1,
                       !.intensity = {<<2, 0, 60>>},
                       !.bus_interval = << <<0, 70>> >>]

\* Three stops, one round trip: an intermediate peak stop, a hop of
\* positive length on either side of it in one direction only, passengers
\* at the far terminal.
ConfigThreeStops ==
    [BaseConfig EXCEPT !.stop_number = 3,
                       !.distance = {<<1, 0>>, <<2, 300>>, <<3, 0>>},
                       !.intensity = {<<3, 0, 60>>},
                       !.bus_interval = << <<0, 70>> >>]

\* Two hours with a headway rule for each, given out of order in the file.
ConfigTwoHours ==
    [BaseConfig EXCEPT !.simulation_hours = 2,
                       !.bus_interval = << <<1, 20>>, <<0, 45>> >>]

\* The pool runs empty in hour 0 and the next tram comes back in hour 1,
\* where another headway rule is in force.
ConfigStall ==
    [BaseConfig EXCEPT !.simulation_hours = 2,
                       !.stop_time = 320,
                       !.bus_interval = << <<0, 10>>, <<1, 45>> >>]

\* A negative headway in the rule of hour 0.
ConfigNegativeHeadway ==
    [BaseConfig EXCEPT !.bus_interval = << <<0, -5>> >>]

\* A negative stop time.
ConfigNegativeDwell ==
    [BaseConfig EXCEPT !.stop_time = -20]

\* An acceleration time so far below zero that every travel time is.
ConfigNegativeTravel ==
    [ConfigTravel EXCEPT !.acceleration_time = -1000]

\* No rule starts at hour 0: the first rule of the sorted list applies.
ConfigLateRules ==
    [BaseConfig EXCEPT !.bus_interval = << <<2, 50>>, <<1, 35>> >>]

\* The same capacity on a line where nobody ever waits.
ConfigBadCapacityIdle ==
    [ConfigBadCapacity EXCEPT !.intensity = {}]

\* Zero headway and trams of one seat: the trams reach the far terminal
\* together, where the first leaves somebody behind for the second.
ConfigTogether ==
    [BaseConfig EXCEPT !.bus_interval = << <<0, 0>> >>,
                       !.tram_capacity = 1,
                       !.stop_time = 500,
                       !.intensity = {<<2, 0, 120>>}]

Configs ==
    { ConfigPassengers, ConfigFirstStop, ConfigZeroHeadway, ConfigShortHeadway,
      ConfigTravel, ConfigThreeStops, ConfigTwoHours, ConfigStall,
      ConfigLateRules, ConfigNegativeHeadway, ConfigNegativeDwell,
      ConfigNegativeTravel,
      ConfigBadCapacity, ConfigBadCapacityIdle, ConfigTogether }

\* ------------------------------------------------------------------- state

VARIABLES
    cfg,        \* the configuration loaded by __init__
    status,     \* "init", "running", "halted" (horizon reached) or "error"
    now,        \* env.now, in ticks
    queue,      \* the event heap of the environment
    eid,        \* the next event id (env._eid)
    items,      \* available_trams.items
    get_queue,  \* pending get requests of the store (the dispatcher's)
    put_queue,  \* pending put requests of the store
    gen,        \* the dispatcher process: where it waits, its local interval
    trips,      \* the tram_process generators alive, by launch number
    launched,   \* number of tram_process generators created so far
    trams,      \* self.trams: the Tram objects with their stats
    stops,      \* self.stops: the Stop objects
    total_passengers_served,  \* self.stats['total_passengers_served']
    arrivals,   \* history: sum of all new_passengers drawn so far
    returned,   \* history: per tram, the times tram_process reached line 361
    last        \* history: the event processed by the latest step

vars ==
    << cfg, status, now, queue, eid, items, get_queue, put_queue, gen, trips,
       launched, trams, stops, total_passengers_served, arrivals, returned,
       last >>

\* ----------------------------------------------------------------- helpers

Min(a, b) == IF a <= b THEN a ELSE b

Max(a, b) == IF a >= b THEN a ELSE b

\* int(x) of Python for x = a / b with b > 0: truncation towards zero.
TruncDiv(a, b) == IF a >= 0 THEN a \div b ELSE -((-a) \div b)

\* dict.get(key, default) on a list of [key, value] pairs of the file.
Lookup(pairs, key, default) ==
    IF \E p \in pairs : p[1] = key
    THEN (CHOOSE p \in pairs : p[1] = key)[2]
    ELSE default

\* int(self.env.now // 60) % 24
HourOf(t) == (t \div TicksPerHour) % 24

\* get_intensity: intensity_map.get(stop_id, {}).get(hour, 0)
get_intensity(c, stop_id, hour) ==
    IF \E p \in c.intensity : p[1] = stop_id /\ p[2] = hour
    THEN (CHOOSE p \in c.intensity : p[1] = stop_id /\ p[2] = hour)[3]
    ELSE 0

NoEvent == [time |-> -1, prio |-> NORMAL, eid |-> -1, kind |-> "none", trip |-> 0, tram |-> 0]

Event(t, p, id, k, tr, tm) ==
    [time |-> t, prio |-> p, eid |-> id, kind |-> k, trip |-> tr, tram |-> tm]

\* (Mutation: a heap ordered by (time, event id) only.)
PrecedesFifo(e, f) ==
    \/ e.time < f.time
    \/ e.time = f.time /\ e.eid < f.eid

\* Heap order of the environment: (time, priority, event id).
Precedes(e, f) ==
    \/ e.time < f.time
    \/ e.time = f.time /\ e.prio < f.prio
    \/ e.time = f.time /\ e.prio = f.prio /\ e.eid < f.eid

\* The event env.step() pops.
NextEvent == CHOOSE e \in queue : \A f \in queue \ {e} : Precedes(e, f)

\* ---------------------------------------------------------- pure functions

\* sorted(config['bus_interval'], key=lambda x: x[0]): stable insertion of
\* rule r into the sorted list s.
InsertRule(s, r) ==
    LET k == Cardinality({i \in 1..Len(s) : s[i][1] <= r[1]})
    IN  SubSeq(s, 1, k) \o <<r>> \o SubSeq(s, k + 1, Len(s))

RECURSIVE SortRules(_)
SortRules(s) ==
    IF s = << >> THEN << >>
    ELSE InsertRule(SortRules(SubSeq(s, 1, Len(s) - 1)), s[Len(s)])

\* self.bus_intervals as load_config leaves it.
bus_intervals(c) == SortRules(c.bus_interval)

\* The loop of get_current_interval, from rule i down to the first one:
\* the first rule met whose start hour is <= hour, the first rule of the
\* list when the loop runs out.
RECURSIVE ScanRules(_, _, _)
ScanRules(rules, i, hour) ==
    IF i < 1 THEN rules[1][2]
    ELSE IF hour >= rules[i][1] THEN rules[i][2]
    ELSE ScanRules(rules, i - 1, hour)

\* (Mutation: the first rule is taken whatever the hour.)
first_interval(c, current_time) == bus_intervals(c)[1][2]

\* get_current_interval, in minutes.
get_current_interval(c, current_time) ==
    ScanRules(bus_intervals(c), Len(bus_intervals(c)), HourOf(current_time))

\* (Mutation: the acceleration time is added whatever the distance.)
travel_time_with_acceleration(c, distance, hour, variation) ==
    LET load_factor  == Lookup(c.road_loads, hour, DefaultLoad)
        actual_speed == Max(c.flow_speed * (100 - load_factor) * variation,
                            5 * 10000)
    IN  (Max(distance, 0) * 60 * TicksPerMinute * 10) \div actual_speed
           + c.acceleration_time

\* calculate_travel_time, in ticks, for one value of the speed variation.
calculate_travel_time(c, distance, hour, variation) ==
    IF distance <= 0 THEN 0
    ELSE LET load_factor  == Lookup(c.road_loads, hour, DefaultLoad)
             \* km/h times 10^4
             actual_speed == Max(c.flow_speed * (100 - load_factor) * variation,
                                 5 * 10000)
             \* (distance / 1000) * (60 / actual_speed) minutes, in ticks
         IN  (distance * 60 * TicksPerMinute * 10) \div actual_speed
                + c.acceleration_time

\* The values random.uniform can give the travel time of one hop.
TravelTimes(c, distance, hour) ==
    {calculate_travel_time(c, distance, hour, v) : v \in SpeedVariation}

\* Tram.free_seats
free_seats(tram) == tram.capacity - tram.passengers

\* Tram.utilization, in percent.
utilization(tram) ==
    IF tram.capacity > 0 THEN (100 * tram.passengers) \div tram.capacity ELSE 0

\* (Mutation: every free seat is filled, whoever waits.)
board_all_seats(tram, waiting) == free_seats(tram)

\* Tram.board_passengers: the number that boards.
board_passengers(tram, waiting) == Min(waiting, free_seats(tram))

\* self.passengers += can_board
Boarded(passengers, can_board) == passengers + can_board

\* (Mutation: those who alight are not taken off the count.)
AlightedNothing(passengers, alighting) == passengers

\* self.passengers -= alighting
Alighted(passengers, alighting) == passengers - alighting

\* (Mutation: those left behind by the tram before are forgotten.)
JoinedAfresh(waiting, new_passengers) == new_passengers

\* stop.waiting_passengers += new_passengers
Joined(waiting, new_passengers) == waiting + new_passengers

\* (Mutation: those who board are not taken off the waiting count.)
LeftWaitingAll(waiting, boarded) == waiting

\* stop.waiting_passengers -= boarded
LeftWaiting(waiting, boarded) == waiting - boarded

\* (Mutation: only the far end of the line is a terminal.)
is_terminal_forward(direction, stop_id, total_stops) ==
    direction = "forward" /\ stop_id = total_stops

\* Terminal stop of the direction the tram runs in.
is_terminal(direction, stop_id, total_stops) ==
    \/ direction = "forward" /\ stop_id = total_stops
    \/ direction = "backward" /\ stop_id = 1

\* (Mutation: the stops passed are counted from zero.)
progress_from_zero(direction, stop_id, total_stops) ==
    IF direction = "forward" THEN stop_id - 1 ELSE total_stops - stop_id

\* progress of alight_passengers, as the numerator of the fraction
\* progress / total_stops.
progress(direction, stop_id, total_stops) ==
    IF direction = "forward" THEN stop_id ELSE total_stops - stop_id + 1

\* Tram.alight_passengers: the number that alights.  The rate is the
\* fraction rate / (1000 * total_stops).
alight_passengers(tram, stop_id, total_stops, peak_stop) ==
    IF tram.passengers = 0 THEN 0
    ELSE LET base_rate == IF stop_id = peak_stop THEN 400 ELSE 200
             rate      == Min(base_rate * total_stops
                                + 300 * progress(tram.direction, stop_id,
                                                 total_stops),
                              800 * total_stops)
             alighting == TruncDiv(tram.passengers * rate, 1000 * total_stops)
         IN  IF is_terminal(tram.direction, stop_id, total_stops)
             THEN tram.passengers
             ELSE alighting

\* (Mutation: passengers arrive whatever the time since the last tram.)
get_new_passengers_any_time(intensity_per_hour, time_since_last) ==
    IF intensity_per_hour <= 0 THEN {0} ELSE 0..MaxNew

\* Stop.get_new_passengers: the values the call can return.  The draw
\* max(0, int(random.gauss(rate, sqrt(rate)))) is any number from 0 up.
get_new_passengers(intensity_per_hour, time_since_last) ==
    IF time_since_last <= 0 THEN {0}
    ELSE IF intensity_per_hour * time_since_last <= 0 THEN {0}
    ELSE 0..MaxNew

\* (Mutation: the backward leg runs through the stops in ascending order.)
StopAtAscending(direction, i, total_stops) == i + 1

\* stops_sequence[i] of tram_process, i counted from 0.
StopAt(direction, i, total_stops) ==
    IF direction = "forward" THEN i + 1 ELSE total_stops - i

\* (Mutation: the entry of the stop arrived at, in both directions.)
HopDistanceOfStop(c, direction, i) ==
    Lookup(c.distance, StopAt(direction, i, c.stop_number), 0)

\* The distance of the hop that ends at stops_sequence[i], i > 0.
HopDistance(c, direction, i) ==
    LET stop_id   == StopAt(direction, i, c.stop_number)
        prev_stop == StopAt(direction, i - 1, c.stop_number)
    IN  IF direction = "forward"
        THEN Lookup(c.distance, stop_id, 0)
        ELSE Lookup(c.distance, prev_stop, 0)

\* (Mutation: the hours are passed to env.run as they are.)
HorizonInHours(c) == c.simulation_hours * TicksPerMinute

\* self.simulation_hours * 60, in ticks.
Horizon(c) == c.simulation_hours * TicksPerHour

\* --------------------------------------------------------------- the store

\* simpy.Store(env) is created without a capacity, so a put always finds
\* room: len(items) < inf.
\* (Mutation: a store of capacity 1.)
StoreHasRoomForOne(its) == Len(its) < 1

StoreHasRoom(its) == TRUE

\* Store._do_get: a get request is served when the store holds an item ...
HasItem(its) == its # << >>

\* (Mutation: the item put last is handed out.)
Newest(its) == its[Len(its)]

\* ... with items.pop(0): the oldest item is handed out,
Oldest(its) == Head(its)

\* (Mutation: the item handed out is not removed.)
PoppedNothing(its) == its

\* and the others stay.
Popped(its) == Tail(its)

\* (Mutation: the put event does not serve the get queue.)
TriggerGetNever(gq, its) == FALSE

\* BaseResource._trigger_get, the callback of every put event: the oldest
\* get request is served if the store holds an item.
TriggerGet(gq, its) == gq # << >> /\ HasItem(its)

\* Store._do_put: items.append(item).
Stored(its, tram) == Append(its, tram)

\* ------------------------------------------------------------ construction

\* Stop.__init__
NewStop ==
    [ waiting_passengers |-> 0,
      last_tram_time     |-> 0,
      total_waiting_time |-> 0,     \* in half ticks
      passengers_served  |-> 0,
      waiting_history    |-> << >> ]

\* Tram.__init__ with its TramStats
NewTram(capacity) ==
    [ capacity            |-> capacity,
      passengers          |-> 0,
      direction           |-> "forward",
      passengers_served   |-> 0,
      total_trips         |-> 0,
      utilization_history |-> << >>,
      stop_log            |-> << >> ]

\* TramSimulation.__init__: configuration loaded, environment at time 0,
\* empty store, no tram, the stops set up.
Init ==
    /\ cfg \in Configs
    /\ status = "init"
    /\ now = 0
    /\ queue = {}
    /\ eid = 0
    /\ items = << >>
    /\ get_queue = << >>
    /\ put_queue = << >>
    /\ gen = [pc |-> "none", interval |-> 0]
    /\ trips = << >>
    /\ launched = 0
    /\ trams = << >>
    /\ stops = [i \in 1..cfg.stop_number |-> NewStop]
    /\ total_passengers_served = 0
    /\ arrivals = 0
    /\ returned = [t \in 1..FleetSize |-> 0]
    /\ last = NoEvent

\* run_simulation up to the call of env.run: create_initial_trams puts the
\* fleet into the store (every put is granted at once and leaves its event
\* in the heap), the dispatcher process is created (its Initialize event is
\* URGENT) and env.run schedules the URGENT until-event at the horizon.
RunSimulation ==
    /\ status = "init"
    /\ trams' = [t \in 1..FleetSize |-> NewTram(cfg.tram_capacity)]
    /\ items' = [t \in 1..FleetSize |-> t]
    /\ queue' = {Event(0, NORMAL, t - 1, "put", 0, t) : t \in 1..FleetSize}
                \cup {Event(0, URGENT, FleetSize, "gen_init", 0, 0)}
                \cup (IF Horizon(cfg) > 0
                      THEN {Event(Horizon(cfg), URGENT, FleetSize + 1, "until", 0, 0)}
                      ELSE {})
    /\ eid' = FleetSize + 2
    /\ gen' = [pc |-> "init", interval |-> 0]
    /\ status' = IF Horizon(cfg) > 0 THEN "running" ELSE "error"
    /\ UNCHANGED << cfg, now, get_queue, put_queue, trips, launched, stops,
                    total_passengers_served, arrivals, returned, last >>

\* ------------------------------------------------------- the event loop

\* env.step(): the least event of the heap is due.
Due(kind) ==
    /\ status = "running"
    /\ queue # {}
    /\ NextEvent.kind = kind

\* The heap after the step: the popped event removed, the new ones pushed
\* with consecutive event ids.
Pushed(new) ==
    /\ queue' = (queue \ {NextEvent})
                \cup {[new[k] EXCEPT !.eid = eid + k - 1] : k \in 1..Len(new)}
    /\ eid' = eid + Len(new)
    /\ now' = NextEvent.time
    /\ last' = NextEvent

\* (Mutation: no delay is refused.)
RejectedNever(delay) == FALSE

\* env.timeout(delay) raises ValueError for a negative delay, inside the
\* process that calls it.
Rejected(delay) == delay < 0

\* (Mutation: the delay is taken as the due time.)
TimeoutAbsolute(delay, kind, trip) ==
    Event(delay, NORMAL, 0, kind, trip, 0)

\* env.timeout(delay): a NORMAL event at now + delay.
Timeout(delay, kind, trip) ==
    Event(NextEvent.time + delay, NORMAL, 0, kind, trip, 0)

\* env.process(generator): the URGENT Initialize event of the new process.
Initialize(kind, trip, tram) ==
    Event(NextEvent.time, URGENT, 0, kind, trip, tram)

\* event.succeed() and the end of a process: a NORMAL event at now.
Succeed(kind, trip, tram) ==
    Event(NextEvent.time, NORMAL, 0, kind, trip, tram)

\* A process left by an exception: its process event fails, a NORMAL event
\* at now.  "arrive_failed" is the event of an arrive_at_stop (tram_process
\* waits for it), "failed" that of tram_generator or of a tram_process
\* (nothing waits for it).
Fail(kind, trip, tram) ==
    Event(NextEvent.time, NORMAL, 0, kind, trip, tram)

\* ---------------------------------------------------------- the dispatcher

\* Head of the loop of tram_generator: the headway is read from the clock
\* and a tram is requested.  Store.get() serves the request at once when
\* the store holds a tram (the get event is then triggered and waits in the
\* heap); otherwise the request stays in the get queue.
LoopHead ==
    LET interval == get_current_interval(cfg, NextEvent.time)
    IN  /\ gen' = [pc |-> "get", interval |-> interval]
        /\ IF HasItem(items)
           THEN /\ items' = Popped(items)
                /\ get_queue' = get_queue
                /\ Pushed(<< Succeed("get", 0, Oldest(items)) >>)
           ELSE /\ items' = items
                /\ get_queue' = Append(get_queue, "tram_generator")
                /\ Pushed(<< >>)
        /\ UNCHANGED << cfg, status, put_queue, trips, launched, trams, stops,
                        total_passengers_served, arrivals, returned >>

\* The Initialize event of tram_generator: the process starts.
GeneratorStart ==
    /\ Due("gen_init")
    /\ LoopHead

\* The headway timeout of line 309: the next iteration starts.
HeadwayElapsed ==
    /\ Due("headway")
    /\ LoopHead

\* A put event is processed.  Its first callback is the store's
\* _trigger_get, which serves a waiting get request with the oldest item;
\* then the tram_process that yielded the put (none for the puts of
\* create_initial_trams) resumes and ends, which triggers its process event.
PutProcessed ==
    /\ Due("put")
    /\ LET e      == NextEvent
           grant  == TriggerGet(get_queue, items)
           got    == IF grant THEN << Succeed("get", 0, Oldest(items)) >> ELSE << >>
           ended  == IF e.trip # 0 THEN << Succeed("trip_done", e.trip, e.tram) >>
                     ELSE << >>
       IN  /\ items' = IF grant THEN Popped(items) ELSE items
           /\ get_queue' = IF grant THEN Tail(get_queue) ELSE get_queue
           /\ trips' = IF e.trip # 0
                       THEN [t \in DOMAIN trips \ {e.trip} |-> trips[t]]
                       ELSE trips
           /\ Pushed(got \o ended)
    /\ UNCHANGED << cfg, status, put_queue, gen, launched, trams, stops,
                    total_passengers_served, arrivals, returned >>

\* (Mutation: the headway is looked up again when the tram is granted.)
HeadwayDelayAtGrant(interval, grant_time) ==
    get_current_interval(cfg, grant_time) * TicksPerMinute

\* The delay of env.timeout(interval) at line 309, in ticks: the interval
\* read at line 298, whatever the time of the grant.
HeadwayDelay(interval, grant_time) == interval * TicksPerMinute

\* The get event is processed.  Its first callback is the store's
\* _trigger_put, which serves a waiting put request if there is room; then
\* tram_generator resumes with the tram: it creates the tram_process and
\* suspends for the interval read at the head of the iteration.
\* A negative interval makes env.timeout raise ValueError, after the
\* tram_process is created: tram_generator is left by the exception.
GetProcessed ==
    /\ Due("get")
    /\ LET e     == NextEvent
           room  == put_queue # << >> /\ StoreHasRoom(items)
           put   == IF room
                    THEN << Succeed("put", Head(put_queue).trip, Head(put_queue).tram) >>
                    ELSE << >>
           trip  == launched + 1
           delay == HeadwayDelay(gen.interval, e.time)
       IN  /\ items' = IF room THEN Stored(items, Head(put_queue).tram) ELSE items
           /\ put_queue' = IF room THEN Tail(put_queue) ELSE put_queue
           /\ launched' = trip
           /\ trips' = trips @@ (trip :> [tram |-> e.tram, pc |-> "init",
                                          direction |-> "forward", i |-> 0])
           /\ gen' = [gen EXCEPT !.pc = IF Rejected(delay) THEN "failed"
                                         ELSE "headway"]
           /\ Pushed(put \o << Initialize("trip_init", trip, e.tram) >>
                         \o (IF Rejected(delay) THEN << Fail("failed", 0, 0) >>
                             ELSE << Timeout(delay, "headway", 0) >>))
    /\ UNCHANGED << cfg, status, get_queue, trams, stops,
                    total_passengers_served, arrivals, returned >>

\* ------------------------------------------------------------ a round trip

\* The tram_process whose event is due, and its tram.
Trip == trips[NextEvent.trip]

\* The position of tram_process NextEvent.trip becomes (pc, direction, i).
TripAt(pc, direction, i) ==
    [trips EXCEPT ![NextEvent.trip] =
        [tram |-> @.tram,
         pc |-> IF @.pc = "interrupted" THEN @.pc ELSE pc,
         direction |-> direction, i |-> i]]

\* The callback of tram_process is still on the event: Process._resume is
\* taken off its target when the process is interrupted.
Resumes == Trip.pc # "interrupted"

\* available_trams.put(tram) of line 366.  Store.put() serves the request
\* at once when the store has room: the tram joins the items and the put
\* event is triggered; otherwise the request waits in the put queue.
StorePut ==
    /\ returned' = [returned EXCEPT ![Trip.tram] = @ + 1]
    /\ IF StoreHasRoom(items)
       THEN /\ items' = Stored(items, Trip.tram)
            /\ put_queue' = put_queue
            /\ Pushed(<< Succeed("put", NextEvent.trip, Trip.tram) >>)
       ELSE /\ items' = items
            /\ put_queue' = Append(put_queue,
                    [trip |-> NextEvent.trip, tram |-> Trip.tram])
            /\ Pushed(<< >>)

\* Start of a leg in tram_process: tram.direction is set; the first stop of
\* the sequence has no travel before it, so arrive_at_stop is started at
\* once (its Initialize event is URGENT).
StartLeg(direction, trams1) ==
    /\ trams' = [trams1 EXCEPT ![Trip.tram].direction = direction]
    /\ IF cfg.stop_number >= 1
       THEN /\ trips' = TripAt("visit", direction, 0)
            /\ Pushed(<< Initialize("arrive_init", NextEvent.trip, Trip.tram) >>)
            /\ UNCHANGED << items, put_queue, returned >>
       ELSE IF direction = "forward"
       THEN /\ trips' = TripAt("turnaround", direction, 0)
            /\ Pushed(<< Timeout(TurnaroundTime, "turnaround", NextEvent.trip) >>)
            /\ UNCHANGED << items, put_queue, returned >>
       ELSE /\ trips' = TripAt("put", direction, 0)
            /\ StorePut

\* (Mutation: the trip is not counted.)
TripNotCounted(total_trips) == total_trips

\* tram.stats.total_trips += 1, the first statement of tram_process.
TripCounted(total_trips) == total_trips + 1

\* The Initialize event of a tram_process: the trip counter of the tram is
\* incremented and the forward leg starts.
TripStart ==
    /\ Due("trip_init")
    /\ StartLeg("forward",
                [trams EXCEPT ![Trip.tram].total_trips = TripCounted(@)])
    /\ UNCHANGED << cfg, status, get_queue, gen, launched, stops,
                    total_passengers_served, arrivals >>

\* The turnaround timeout of line 359: the backward leg starts.
TurnaroundElapsed ==
    /\ Due("turnaround")
    /\ Resumes
    /\ StartLeg("backward", trams)
    /\ UNCHANGED << cfg, status, get_queue, gen, launched, stops,
                    total_passengers_served, arrivals >>

\* The travel timeout of line 352: the tram reaches the stop and
\* arrive_at_stop is started.
TravelElapsed ==
    /\ Due("travel")
    /\ Resumes
    /\ trips' = TripAt("visit", Trip.direction, Trip.i)
    /\ Pushed(<< Initialize("arrive_init", NextEvent.trip, Trip.tram) >>)
    /\ UNCHANGED << cfg, status, items, get_queue, put_queue, gen, launched,
                    trams, stops, total_passengers_served, arrivals, returned >>

\* The process event of arrive_at_stop: tram_process resumes after the
\* visit of stops_sequence[i].  It travels to the next stop of the leg, or
\* pauses for the turnaround after the forward leg, or, after the backward
\* leg, puts the tram back into the store and waits for the put event.
\* A negative travel time makes env.timeout raise ValueError, which is not
\* caught (the handler is for simpy.Interrupt): tram_process is left by the
\* exception.
ArriveDone ==
    /\ Due("arrive_done")
    /\ Resumes
    /\ LET i    == Trip.i + 1
           hour == HourOf(NextEvent.time)
       IN  IF i < cfg.stop_number
           THEN /\ \E travel_time \in
                        TravelTimes(cfg, HopDistance(cfg, Trip.direction, i), hour) :
                     IF Rejected(travel_time)
                     THEN /\ trips' = TripAt("failed", Trip.direction, i)
                          /\ Pushed(<< Fail("failed", NextEvent.trip, Trip.tram) >>)
                     ELSE /\ trips' = TripAt("travel", Trip.direction, i)
                          /\ Pushed(<< Timeout(travel_time, "travel",
                                               NextEvent.trip) >>)
                /\ UNCHANGED << items, put_queue, returned >>
           ELSE IF Trip.direction = "forward"
           THEN /\ trips' = TripAt("turnaround", Trip.direction, i)
                /\ Pushed(<< Timeout(TurnaroundTime, "turnaround", NextEvent.trip) >>)
                /\ UNCHANGED << items, put_queue, returned >>
           ELSE /\ trips' = TripAt("put", Trip.direction, i)
                /\ StorePut
    /\ UNCHANGED << cfg, status, get_queue, gen, launched, trams, stops,
                    total_passengers_served, arrivals >>

\* The process event of a finished tram_process: nothing waits for it.
TripDone ==
    /\ Due("trip_done")
    /\ Pushed(<< >>)
    /\ UNCHANGED << cfg, status, items, get_queue, put_queue, gen, trips,
                    launched, trams, stops, total_passengers_served, arrivals,
                    returned >>

\* ------------------------------------------------------------ a stop visit

\* (Mutation: the stops share one Stop object.)
UpdatedAll(objects, id, object) == [k \in DOMAIN objects |-> object]

\* self.stops[stop_id] (and the tram passed to arrive_at_stop): the
\* object with that id is the one the visit changes.
Updated(objects, id, object) == [objects EXCEPT ![id] = object]

\* (Mutation: a sample equal to the one before is not written again.)
record_waiting_changes(waiting_history, time, waiting_passengers) ==
    IF /\ waiting_history # << >>
       /\ waiting_history[Len(waiting_history)] = <<time, waiting_passengers>>
    THEN waiting_history
    ELSE Append(waiting_history, <<time, waiting_passengers>>)

\* Stop.record_waiting
record_waiting(waiting_history, time, waiting_passengers) ==
    Append(waiting_history, <<time, waiting_passengers>>)

\* (Mutation: the dwell does not depend on who boards and alights.)
stop_time_only(stop_time, boarded, alighted) == stop_time

\* total_stop_time of arrive_at_stop, in ticks: boarding_time is 0.05
\* minutes, one tick, for each passenger who boards or alights.
total_stop_time(stop_time, boarded, alighted) ==
    stop_time + (boarded + alighted)

\* The Initialize event of arrive_at_stop: the body of the process up to
\* its yield, for one value of the draw of new passengers.  A negative
\* total_stop_time makes env.timeout raise ValueError: arrive_at_stop is
\* left by the exception, with the visit already recorded.
Visit(new_passengers) ==
    LET tram            == trams[Trip.tram]
        stop_id         == StopAt(Trip.direction, Trip.i, cfg.stop_number)
        stop            == stops[stop_id]
        waiting_before  == stop.waiting_passengers
        alighted        == alight_passengers(tram, stop_id, cfg.stop_number,
                                              cfg.peak_stop)
        tram1           == [tram EXCEPT !.passengers = Alighted(@, alighted)]
        time_since_last == NextEvent.time - stop.last_tram_time
        waiting1        == Joined(waiting_before, new_passengers)
        boarded         == board_passengers(tram1, waiting1)
        tram2           == [tram1 EXCEPT !.passengers = Boarded(@, boarded)]
        waiting2        == LeftWaiting(waiting1, boarded)
        stop_time       == total_stop_time(cfg.stop_time, boarded, alighted)
    IN  /\ stops' = Updated(stops, stop_id,
              [ waiting_passengers |-> waiting2,
                last_tram_time     |-> NextEvent.time,
                total_waiting_time |-> IF boarded > 0
                                       THEN stop.total_waiting_time
                                               + boarded * time_since_last
                                       ELSE stop.total_waiting_time,
                passengers_served  |-> IF boarded > 0
                                       THEN stop.passengers_served + boarded
                                       ELSE stop.passengers_served,
                waiting_history    |->
                    record_waiting(record_waiting(stop.waiting_history,
                                                  NextEvent.time, waiting1),
                                   NextEvent.time, waiting2) ])
        /\ trams' = Updated(trams, Trip.tram,
              [ tram2 EXCEPT
                  !.passengers_served   = @ + boarded,
                  !.utilization_history = Append(@, utilization(tram2)),
                  !.stop_log            = Append(@,
                      [ time              |-> NextEvent.time,
                        stop_id           |-> stop_id,
                        direction         |-> tram.direction,
                        waiting_before    |-> waiting_before + new_passengers,
                        alighted          |-> alighted,
                        boarded           |-> boarded,
                        utilization_after |-> utilization(tram2) ]) ])
        /\ total_passengers_served' = total_passengers_served + boarded
        /\ arrivals' = arrivals + new_passengers
        /\ IF Rejected(stop_time)
           THEN /\ trips' = trips
                /\ Pushed(<< Fail("arrive_failed", NextEvent.trip, Trip.tram) >>)
           ELSE /\ trips' = TripAt("dwell", Trip.direction, Trip.i)
                /\ Pushed(<< Timeout(stop_time, "dwell", NextEvent.trip) >>)

ArriveAtStop ==
    /\ Due("arrive_init")
    /\ LET stop_id == StopAt(Trip.direction, Trip.i, cfg.stop_number)
           hour    == HourOf(NextEvent.time)
       IN  \E new_passengers \in
                get_new_passengers(get_intensity(cfg, stop_id, hour),
                                   NextEvent.time - stops[stop_id].last_tram_time) :
              Visit(new_passengers)
    /\ UNCHANGED << cfg, status, items, get_queue, put_queue, gen, launched,
                    returned >>

\* The dwell timeout of line 293: arrive_at_stop ends, which triggers its
\* process event; tram_process waits for that event.
DwellElapsed ==
    /\ Due("dwell")
    /\ trips' = TripAt("visited", Trip.direction, Trip.i)
    /\ Pushed(<< Succeed("arrive_done", NextEvent.trip, Trip.tram) >>)
    /\ UNCHANGED << cfg, status, items, get_queue, put_queue, gen, launched,
                    trams, stops, total_passengers_served, arrivals, returned >>

\* --------------------------------------------------------------- failures

\* The failed process event of arrive_at_stop: the exception is thrown into
\* the tram_process that waits for the visit, which does not catch it and
\* is left by it in turn.
ArriveFailed ==
    /\ Due("arrive_failed")
    /\ Resumes
    /\ trips' = TripAt("failed", Trip.direction, Trip.i)
    /\ Pushed(<< Fail("failed", NextEvent.trip, Trip.tram) >>)
    /\ UNCHANGED << cfg, status, items, get_queue, put_queue, gen, launched,
                    trams, stops, total_passengers_served, arrivals, returned >>

\* The failed process event of tram_generator or of a tram_process (or of
\* an arrive_at_stop whose tram_process was interrupted): nobody handles
\* it, so env.step raises the exception and env.run, and with it
\* run_simulation, ends with the error.
Crash ==
    /\ \/ Due("failed")
       \/ Due("arrive_failed") /\ ~ Resumes
    /\ status' = "error"
    /\ Pushed(<< >>)
    /\ UNCHANGED << cfg, items, get_queue, put_queue, gen, trips, launched,
                    trams, stops, total_passengers_served, arrivals, returned >>

\* ------------------------------------------------------------- the horizon

\* The until-event of env.run(until=...): the run stops with the clock at
\* the horizon; the events left in the heap are never processed.
Halt ==
    /\ Due("until")
    /\ status' = "halted"
    /\ Pushed(<< >>)
    /\ UNCHANGED << cfg, items, get_queue, put_queue, gen, trips, launched,
                    trams, stops, total_passengers_served, arrivals, returned >>

Next ==
    \/ RunSimulation
    \/ GeneratorStart
    \/ HeadwayElapsed
    \/ PutProcessed
    \/ GetProcessed
    \/ TripStart
    \/ TurnaroundElapsed
    \/ TravelElapsed
    \/ ArriveAtStop
    \/ DwellElapsed
    \/ ArriveDone
    \/ TripDone
    \/ ArriveFailed
    \/ Crash
    \/ Halt

Spec == Init /\ [][Next]_vars

\* env.run keeps calling env.step while the heap holds an event: a step
\* that can be taken is taken.
FairSpec == Spec /\ WF_vars(Next)

\* ------------------------------------------------------------- interrupts

\* Nothing in the program interrupts a trip; the handler of line 368 is
\* for a caller from outside.  The yields of lines 352, 355 and 359, at
\* which such a caller finds a tram_process suspended.
SuspendedAt == {"visit", "dwell", "visited", "travel", "turnaround"}

\* Interrupts sent so far.
Interrupts ==
    Cardinality({e \in queue : e.kind = "interrupt"})
      + Cardinality({t \in DOMAIN trips : trips[t].pc = "interrupted"})

\* process.interrupt() on the tram_process of trip tr, called between two
\* steps of the loop: an URGENT Interruption event at the current time.
InterruptTrip(tr) ==
    /\ status = "running"
    /\ tr \in DOMAIN trips
    /\ trips[tr].pc \in SuspendedAt
    /\ Interrupts < MaxInterrupts
    /\ queue' = queue \cup {Event(now, URGENT, eid, "interrupt", tr, trips[tr].tram)}
    /\ eid' = eid + 1
    /\ UNCHANGED << cfg, status, now, items, get_queue, put_queue, gen, trips,
                    launched, trams, stops, total_passengers_served, arrivals,
                    returned, last >>

\* (Mutation: the interrupt is swallowed and the trip goes on.)
AfterInterruptIgnored(trip) == trip

\* except simpy.Interrupt (lines 368-369): the message is printed and
\* tram_process ends; the tram is not put back.
AfterInterrupt(trip) == [trip EXCEPT !.pc = "interrupted"]

\* The Interruption event is processed: the callback of the process is
\* taken off the event it waits for, simpy.Interrupt is thrown into
\* tram_process, which ends and triggers its process event.  Nothing
\* happens when the process has ended before (an earlier interrupt).
Interrupted ==
    /\ Due("interrupt")
    /\ IF Resumes
       THEN /\ trips' = [trips EXCEPT ![NextEvent.trip] = AfterInterrupt(@)]
            /\ Pushed(<< Succeed("trip_done", NextEvent.trip, NextEvent.tram) >>)
       ELSE /\ trips' = trips
            /\ Pushed(<< >>)
    /\ UNCHANGED << cfg, status, items, get_queue, put_queue, gen, launched,
                    trams, stops, total_passengers_served, arrivals, returned >>

\* An event the interrupted tram_process was waiting for: it is processed
\* with no callback left.
Orphaned ==
    /\ status = "running"
    /\ queue # {}
    /\ NextEvent.kind \in {"travel", "turnaround", "arrive_done"}
    /\ ~ Resumes
    /\ Pushed(<< >>)
    /\ UNCHANGED << cfg, status, items, get_queue, put_queue, gen, trips,
                    launched, trams, stops, total_passengers_served, arrivals,
                    returned >>

\* The configurations run with interrupts.
InterruptConfigs ==
    {ConfigShortHeadway, ConfigThreeStops, ConfigNegativeDwell}

InitInterrupt == Init /\ cfg \in InterruptConfigs

NextInterrupt ==
    \/ Next
    \/ \E tr \in DOMAIN trips : InterruptTrip(tr)
    \/ Interrupted
    \/ Orphaned

SpecInterrupt == InitInterrupt /\ [][NextInterrupt]_vars

\* The event loop is fair; the caller from outside owes nothing.
FairSpecInterrupt == SpecInterrupt /\ WF_vars(Next \/ Interrupted \/ Orphaned)

\* ================================================================== claims

\* Number of times tram is among the items of the store.
InPool(tram) == Cardinality({k \in 1..Len(items) : items[k] = tram})

\* Number of tram_process generators that hold tram.
OnTrip(tram) == Cardinality({t \in DOMAIN trips : trips[t].tram = tram})

\* Number of tram_process generators that hold tram and have not yet
\* issued their put.
Riding(tram) ==
    Cardinality({t \in DOMAIN trips : trips[t].tram = tram /\ trips[t].pc # "put"})

\* Number of triggered get events that carry tram to the dispatcher.
Granted(tram) ==
    Cardinality({e \in queue : e.kind = "get" /\ e.tram = tram})

\* C1 as stated: from fleet creation on, the trams of the pool plus the
\* trams held by the trip processes alive are the fleet, and every tram is
\* in exactly one of the two places.
C1_PoolOrTrip ==
    status # "init" =>
        /\ Len(items) + Cardinality(DOMAIN trips) = FleetSize
        /\ \A tram \in 1..FleetSize : InPool(tram) + OnTrip(tram) = 1

\* C1 amended: from fleet creation on, every tram of the fleet is in
\* exactly one of three places: the items of the pool, a granted request
\* on its way to the dispatcher (the trip not yet created), or a trip
\* process that has not yet issued its release.
C1_TramPlaces ==
    status # "init" =>
        /\ DOMAIN trams = 1..FleetSize
        /\ \A tram \in 1..FleetSize :
              InPool(tram) + Granted(tram) + Riding(tram) = 1
        /\ \A k \in 1..Len(items) : items[k] \in 1..FleetSize
        /\ \A t \in DOMAIN trips : trips[t].tram \in 1..FleetSize

\* A released tram is granted again while the trip that released it is
\* still waiting for its put event.
C1_Witness ==
    /\ launched > FleetSize
    /\ \E e \in queue : e.kind = "get"
    /\ \E t \in DOMAIN trips : trips[t].pc = "put"

\* C2 as stated: a tram that has visited stops carries between 0 and
\* capacity passengers.
C2_PassengersInRange ==
    \A t \in DOMAIN trams :
        trams[t].stop_log # << >> =>
            0 <= trams[t].passengers /\ trams[t].passengers <= trams[t].capacity

\* C3: the waiting count of every stop is never negative.
C3_WaitingNonNegative ==
    \A s \in DOMAIN stops : stops[s].waiting_passengers >= 0

\* A stop where passengers boarded and others had to stay behind.
C3_Witness ==
    \E s \in DOMAIN stops :
        stops[s].passengers_served > 0 /\ stops[s].waiting_passengers > 0

\* The record that log_stop_event appended last to the log of a tram.
LastLog(tram) == tram.stop_log[Len(tram.stop_log)]

\* C4: a stop visit boards min(waiting total with the new arrivals of the
\* visit, free seats of the tram after alighting), takes exactly that
\* number off the waiting count of the stop, and logs the waiting total as
\* waiting_before, so that boarded <= waiting_before.
C4_Boarding ==
    [][ (status = "running" /\ queue # {} /\ NextEvent.kind = "arrive_init") =>
          LET t    == Trip.tram
              s    == StopAt(Trip.direction, Trip.i, cfg.stop_number)
              log  == LastLog(trams'[t])
              free == trams[t].capacity - (trams[t].passengers - log.alighted)
          IN  /\ Len(trams'[t].stop_log) = Len(trams[t].stop_log) + 1
              /\ log.stop_id = s
              /\ log.waiting_before =
                    stops[s].waiting_passengers + (arrivals' - arrivals)
              /\ log.boarded = Min(log.waiting_before, free)
              /\ stops'[s].waiting_passengers = log.waiting_before - log.boarded
              /\ trams'[t].passengers = trams[t].passengers - log.alighted + log.boarded
              /\ log.boarded <= log.waiting_before
      ]_vars

\* A visit where the free seats were fewer than the passengers waiting.
C4_Witness ==
    /\ last.kind = "arrive_init"
    /\ \E t \in DOMAIN trams :
          /\ trams[t].stop_log # << >>
          /\ LastLog(trams[t]).time = now
          /\ LastLog(trams[t]).boarded > 0
          /\ LastLog(trams[t]).boarded < LastLog(trams[t]).waiting_before

RECURSIVE SumAlighted(_)
\* Sum of the alighted counts of a stop log.
SumAlighted(log) ==
    IF log = << >> THEN 0
    ELSE log[Len(log)].alighted + SumAlighted(SubSeq(log, 1, Len(log) - 1))

RECURSIVE SumOver(_, _)
\* Sum of f[x] over the set S.
SumOver(f, S) ==
    IF S = {} THEN 0
    ELSE LET x == CHOOSE y \in S : TRUE IN f[x] + SumOver(f, S \ {x})

TotalWaiting ==
    SumOver([s \in DOMAIN stops |-> stops[s].waiting_passengers], DOMAIN stops)

TotalOnboard ==
    SumOver([t \in DOMAIN trams |-> trams[t].passengers], DOMAIN trams)

TotalAlighted ==
    SumOver([t \in DOMAIN trams |-> SumAlighted(trams[t].stop_log)], DOMAIN trams)

\* C5: no passenger is created or lost: the new arrivals generated so far
\* are the passengers waiting at the stops, plus those on board the trams,
\* plus those logged as alighted.
C5_Conservation ==
    arrivals = TotalWaiting + TotalOnboard + TotalAlighted

\* Passengers have arrived and are found in all three places.
C5_Witness ==
    /\ TotalWaiting > 0
    /\ TotalOnboard > 0
    /\ TotalAlighted > 0

\* The steps that resume a process after a timed wait.
TimedKinds == {"travel", "dwell", "turnaround", "headway"}

\* The steps that start a process (Initialize events).
StartKinds == {"gen_init", "trip_init", "arrive_init"}

\* C6: the clock never decreases, no pending event is due before the
\* clock, and every step (in particular every travel, dwell, turnaround and
\* headway continuation) runs with the clock equal to the due time of its
\* event.
C6_Clock ==
    /\ [](\A e \in queue : e.time >= now)
    /\ [](last.kind \in TimedKinds => last.time = now)
    /\ [][ /\ now' >= now
           /\ (status = "running" /\ queue # {}) =>
                 (NextEvent.time >= now /\ now' = NextEvent.time) ]_vars

\* A turnaround continuation has resumed while later events are pending.
C6_Witness ==
    /\ last.kind = "turnaround"
    /\ now > 0
    /\ \E e \in queue : e.kind \in TimedKinds /\ e.time > now

\* C7 as stated: the event fired is the earliest due, and among the events
\* due at the same time the one submitted first, process-start events
\* included.
C7_Fifo ==
    last.kind # "none" =>
        \A e \in queue :
            \/ last.time < e.time
            \/ last.time = e.time /\ last.eid < e.eid

\* C7 amended: events with different due times fire in time order; among
\* the events due at the same time the process-start events (dispatcher
\* start, trip start, stop-arrival start) fire before every other event,
\* even one submitted earlier, and at the time they are submitted; events
\* of the same time and the same class fire in the order of submission.
C7_Order ==
    [][ (status = "running" /\ queue # {}) =>
          /\ last' \in queue
          /\ \A f \in queue \ {last'} :
                \/ last'.time < f.time
                \/ /\ last'.time = f.time
                   /\ last'.kind \in StartKinds \cup {"until"}
                   /\ f.kind \notin StartKinds \cup {"until"}
                \/ /\ last'.time = f.time
                   /\ (last'.kind \in StartKinds \cup {"until"})
                         = (f.kind \in StartKinds \cup {"until"})
                   /\ last'.eid < f.eid
          /\ last'.kind \in StartKinds => last'.time = now
      ]_vars

\* A stop arrival has started ahead of the travel timeout of another trip
\* that is due at the same time and was submitted before it.
C7_Witness ==
    /\ last.kind = "arrive_init"
    /\ \E e \in queue :
          /\ e.kind = "travel"
          /\ e.time = now
          /\ e.trip # last.trip
          /\ e.eid < last.eid

\* C9: while the request of the dispatcher waits in the get queue no trip
\* is launched; the request waits only while the pool is empty or the
\* release that fills it is being processed at this very time; it leaves
\* the queue only when the put event of a releasing trip is processed,
\* with the released tram and without the clock advancing; and a granted
\* request resumes the dispatcher before the clock advances.
C9_Acquire ==
    /\ [](\A e \in queue : e.kind = "get" => e.time = now)
    /\ [](get_queue # << >> =>
             \/ items = << >>
             \/ \E e \in queue : /\ e.kind = "put"
                                 /\ e.trip # 0
                                 /\ e.time = now
                                 /\ e.tram = Head(items))
    /\ [][ get_queue # << >> =>
             /\ launched' = launched
             /\ get_queue' = << >> =>
                   /\ last'.kind = "put"
                   /\ last'.trip # 0
                   /\ now' = now
                   /\ \E e \in queue' : /\ e.kind = "get"
                                        /\ e.time = now'
                                        /\ e.tram = last'.tram ]_vars

\* The dispatcher waits and a returning trip has just released its tram.
C9_Witness ==
    /\ get_queue # << >>
    /\ items # << >>
    /\ now > 0
    /\ \E t \in DOMAIN trips : trips[t].pc = "put"

\* C10: a release is never queued; a trip that has issued its release has
\* its put event due at the current time and its tram back in the pool (or
\* already granted again); when that event is processed the trip process
\* ends, at the same virtual time and without an error.
C10_Release ==
    /\ [](put_queue = << >>)
    /\ [](\A t \in DOMAIN trips :
             trips[t].pc = "put" =>
                /\ \E e \in queue : /\ e.kind = "put"
                                    /\ e.trip = t
                                    /\ e.tram = trips[t].tram
                                    /\ e.time = now
                /\ InPool(trips[t].tram) + Granted(trips[t].tram) = 1)
    /\ [][ (Due("put") /\ NextEvent.trip # 0) =>
             /\ now' = now
             /\ NextEvent.trip \notin DOMAIN trips'
             /\ status' = "running" ]_vars

\* A tram is released into a pool that already holds another one.
C10_Witness ==
    /\ Len(items) >= 2
    /\ \E t \in DOMAIN trips : trips[t].pc = "put" /\ items[Len(items)] = trips[t].tram

\* Number of tram_process generators of tram that have run their first
\* statement and have not yet come back from the backward leg.
Underway(tram) ==
    Cardinality({t \in DOMAIN trips :
                    trips[t].tram = tram /\ trips[t].pc \notin {"init", "put"}})

\* C11 as stated: the trip counter of a tram is the number of round trips
\* (both legs) the tram has completed; a trip still under way is not
\* counted.
C11_CountsCompleted ==
    \A t \in DOMAIN trams : trams[t].total_trips = returned[t]

\* C11 amended: the trip counter of a tram is incremented exactly once per
\* round trip, when the trip process starts: it is the number of round
\* trips the tram has completed plus the one it has under way, and it
\* changes only on the starting step of a trip, by one.
C11_CountsStarted ==
    /\ [](\A t \in DOMAIN trams :
             /\ trams[t].total_trips = returned[t] + Underway(t)
             /\ Underway(t) <= 1)
    /\ [][ \A t \in DOMAIN trams :
              trams'[t].total_trips # trams[t].total_trips =>
                 /\ Due("trip_init")
                 /\ Trip.tram = t
                 /\ trams'[t].total_trips = trams[t].total_trips + 1 ]_vars

\* A tram on its second round trip, cut by the horizon before the trip is
\* over: the counter says 2, one round trip is complete.
C11_Witness ==
    /\ status = "halted"
    /\ \E t \in DOMAIN trams :
          trams[t].total_trips = 2 /\ returned[t] = 1 /\ Underway(t) = 1

\* C12: the stop log of a tram is a sequence of round trips of
\* 2 * stop_number visits each: stops 1..stop_number forward, then
\* stop_number..1 backward.  The first backward visit starts exactly
\* TurnaroundTime after the dwell of the last forward visit is over, the
\* first stop of either leg is reached at the very time the leg starts (no
\* travel wait), and the tram is released right after the last backward
\* visit, when its log holds 2 * stop_number visits for every trip.
C12_RoundTrip ==
    /\ [](\A t \in DOMAIN trams :
             LET log == trams[t].stop_log
                 N   == cfg.stop_number
             IN  /\ \A k \in 1..Len(log) :
                       LET j == (k - 1) % (2 * N)
                       IN  /\ log[k].stop_id = IF j < N THEN j + 1 ELSE 2 * N - j
                           /\ log[k].direction =
                                 IF j < N THEN "forward" ELSE "backward"
                           /\ j = N =>
                                 log[k].time =
                                    log[k - 1].time + cfg.stop_time
                                      + log[k - 1].boarded + log[k - 1].alighted
                                      + 2 * TicksPerMinute
                 /\ Len(log) >= 2 * N * returned[t]
                 /\ Len(log) <= 2 * N * (returned[t] + 1))
    /\ [](\A tr \in DOMAIN trips :
             trips[tr].pc = "put" =>
                Len(trams[trips[tr].tram].stop_log)
                   = 2 * cfg.stop_number * returned[trips[tr].tram])
    /\ []((status = "running" /\ last.kind \in {"trip_init", "turnaround"}) =>
             /\ NextEvent.kind = "arrive_init"
             /\ NextEvent.trip = last.trip
             /\ NextEvent.time = now)
    /\ [][ \A t \in DOMAIN trams :
              returned'[t] # returned[t] =>
                 /\ Due("arrive_done")
                 /\ Trip.tram = t
                 /\ returned'[t] = returned[t] + 1
                 /\ Len(trams[t].stop_log) = 2 * cfg.stop_number * returned'[t]
                 /\ LastLog(trams[t]).stop_id = 1
                 /\ LastLog(trams[t]).direction = "backward"
                 /\ \E e \in queue' : /\ e.kind = "put"
                                      /\ e.tram = t
                                      /\ e.time = now' ]_vars

\* A tram of the three-stop line has been released after its six visits.
C12_Witness ==
    /\ cfg.stop_number = 3
    /\ \E tr \in DOMAIN trips :
          /\ trips[tr].pc = "put"
          /\ Len(trams[trips[tr].tram].stop_log) = 6
          /\ returned[trips[tr].tram] = 1

\* C13: at the terminal stop of its direction (stop total_stops forward,
\* stop 1 backward) alight_passengers returns the whole onboard count p and
\* leaves the tram empty, whatever the peak stop and the rate: for every
\* line of up to MaxStops stops and every p up to MaxLoad, and on every
\* terminal visit of a run (where the tram then holds only those who board).
C13_TerminalAlight ==
    /\ \A N \in 1..MaxStops : \A peak \in 1..MaxStops : \A p \in 0..MaxLoad :
          \A d \in {"forward", "backward"} :
             LET tram      == [NewTram(MaxLoad) EXCEPT !.passengers = p,
                                                       !.direction = d]
                 stop_id   == IF d = "forward" THEN N ELSE 1
                 alighting == alight_passengers(tram, stop_id, N, peak)
             IN  alighting = p /\ Alighted(tram.passengers, alighting) = 0
    /\ [][ (Due("arrive_init") /\
             LET stop_id == StopAt(Trip.direction, Trip.i, cfg.stop_number)
             IN  \/ Trip.direction = "forward" /\ stop_id = cfg.stop_number
                 \/ Trip.direction = "backward" /\ stop_id = 1) =>
              /\ LastLog(trams'[Trip.tram]).alighted = trams[Trip.tram].passengers
              /\ trams'[Trip.tram].passengers = LastLog(trams'[Trip.tram]).boarded
          ]_vars

\* A tram has just emptied itself at stop 1, the end of the backward leg.
C13_Witness ==
    /\ last.kind = "arrive_init"
    /\ \E t \in DOMAIN trams :
          /\ trams[t].stop_log # << >>
          /\ LastLog(trams[t]).time = now
          /\ LastLog(trams[t]).direction = "backward"
          /\ LastLog(trams[t]).stop_id = 1
          /\ LastLog(trams[t]).alighted > 0
          /\ trams[t].capacity > 0

\* C14 as stated: when the intensity is zero for every stop and hour,
\* every stop-visit record has boarded = 0 and alighted = 0, every tram
\* carries nobody, nobody waits at any stop, and at the horizon some tram
\* has a trip count above 0.
C14_ZeroIntensity ==
    (\A p \in cfg.intensity : p[3] = 0) =>
        /\ \A t \in DOMAIN trams :
              /\ trams[t].passengers = 0
              /\ \A k \in 1..Len(trams[t].stop_log) :
                    /\ trams[t].stop_log[k].boarded = 0
                    /\ trams[t].stop_log[k].alighted = 0
        /\ \A s \in DOMAIN stops : stops[s].waiting_passengers = 0
        /\ status = "halted" => \E t \in DOMAIN trams : trams[t].total_trips > 0

\* The rule lists sorted by start hour on which C15 is evaluated: rule i
\* of a list has the interval 100 + i.
SortedRuleLists ==
    { [i \in DOMAIN h |-> <<h[i], 100 + i>>] :
        h \in { g \in UNION {[1..n -> 0..MaxHour] : n \in 1..MaxRules} :
                   \A i \in 1..(Len(g) - 1) : g[i] <= g[i + 1] } }

\* The clock values on which C15 is evaluated: the first and the last tick
\* of every hour of a day and of the first hours of the next day.
ClockValues ==
    { hh * 60 * TicksPerMinute + off :
        hh \in 0..(24 + MaxHour), off \in {0, 60 * TicksPerMinute - 1} }

\* What C15 says the interval is: that of the last rule whose start hour is
\* <= the hour of the day, that of the first rule when there is none.
IsRuleInForce(rules, t, interval) ==
    LET hour    == (t \div (60 * TicksPerMinute)) % 24
        matches == {i \in 1..Len(rules) : rules[i][1] <= hour}
    IN  IF matches = {}
        THEN interval = rules[1][2]
        ELSE \E i \in matches : /\ \A j \in matches : j <= i
                                /\ interval = rules[i][2]

\* C15: for every clock value and every non-empty rule list sorted by start
\* hour, get_current_interval returns the interval of the last rule whose
\* start hour is <= the hour of the day (the hour count modulo 24), and that
\* of the first rule when no rule has started yet; the dispatcher reads
\* that interval at the head of every iteration.
C15_Interval ==
    /\ \A rules \in SortedRuleLists : \A t \in ClockValues :
          IsRuleInForce(rules, t,
                        get_current_interval([bus_interval |-> rules], t))
    /\ [][ (Due("gen_init") \/ Due("headway")) =>
              IsRuleInForce(SortRules(cfg.bus_interval), now', gen'.interval)
          ]_vars

\* The dispatcher has read the rule of hour 1 after the hour changed.
C15_Witness ==
    /\ last.kind = "headway"
    /\ now >= 60 * TicksPerMinute
    /\ Len(cfg.bus_interval) = 2
    /\ gen.interval = 20
    /\ gen.interval # SortRules(cfg.bus_interval)[1][2]

\* C16: at the head of every iteration the dispatcher reads the headway
\* and issues its request for a tram in one step, at one clock value; the
\* headway read is kept while the request waits; and the step that receives
\* the tram launches the trip and schedules the next iteration exactly that
\* headway later, whatever rule is in force at the time of the grant.
C16_Headway ==
    /\ [][ (Due("gen_init") \/ Due("headway")) =>
              /\ IsRuleInForce(SortRules(cfg.bus_interval), now', gen'.interval)
              /\ gen'.pc = "get"
              /\ \/ get_queue' # << >> /\ get_queue = << >>
                 \/ \E e \in queue' \ queue : e.kind = "get" /\ e.time = now'
          ]_vars
    /\ [][ gen.pc = "get" => gen'.interval = gen.interval ]_vars
    /\ [][ Due("get") =>
              /\ launched' = launched + 1
              /\ gen.interval >= 0 =>
                    \E e \in queue' \ queue :
                       /\ e.kind = "headway"
                       /\ e.time = now' + gen.interval * TicksPerMinute
              /\ \A e \in queue' :
                    e.kind = "headway" =>
                       e.time = now' + gen.interval * TicksPerMinute
          ]_vars
    /\ [][ launched' # launched => Due("get") ]_vars

\* The request was issued in hour 0 and granted in hour 1: the dispatcher
\* waits the headway of hour 0 although another rule is now in force.
C16_Witness ==
    /\ last.kind = "get"
    /\ gen.pc = "headway"
    /\ now >= 60 * TicksPerMinute
    /\ ~ IsRuleInForce(SortRules(cfg.bus_interval), now, gen.interval)
    /\ \E e \in queue :
          e.kind = "headway" /\ e.time = now + gen.interval * TicksPerMinute

\* C17: every run ends, and unless an unhandled exception ends it first
\* it halts with the clock at simulation_hours * 60 minutes, although the
\* dispatcher never leaves its loop.  No event due at or after the horizon
\* is processed, so every stop-visit record and every waiting-history
\* sample is earlier than the horizon; after the halt nothing changes any
\* more: the trips in flight keep their position and their trams, and the
\* events they wait for stay in the heap.
C17_Horizon ==
    /\ <>(status \in {"halted", "error"})
    /\ [](status = "error" => last.kind = "failed")
    /\ [](status = "halted" =>
             /\ now = cfg.simulation_hours * 60 * TicksPerMinute
             /\ last.kind = "until"
             /\ gen.pc \in {"get", "headway"})
    /\ []((last.kind \notin {"none", "until"}) =>
             last.time < cfg.simulation_hours * 60 * TicksPerMinute)
    /\ [](\A t \in DOMAIN trams : \A k \in 1..Len(trams[t].stop_log) :
             trams[t].stop_log[k].time < cfg.simulation_hours * 60 * TicksPerMinute)
    /\ [](\A st \in DOMAIN stops : \A k \in 1..Len(stops[st].waiting_history) :
             stops[st].waiting_history[k][1]
                < cfg.simulation_hours * 60 * TicksPerMinute)
    /\ [][ status = "halted" => UNCHANGED vars ]_vars
    /\ [][ status' = "halted" =>
              /\ trips' = trips
              /\ items' = items
              /\ trams' = trams
              /\ queue' \subseteq queue ]_vars

\* The run has halted with a trip in flight, whose next event is due after
\* the horizon, and with the next iteration of the dispatcher pending.
C17_Witness ==
    /\ status = "halted"
    /\ \E tr \in DOMAIN trips :
          /\ trips[tr].pc \in {"dwell", "travel", "turnaround"}
          /\ \E e \in queue : e.trip = tr /\ e.time >= now
          /\ InPool(trips[tr].tram) = 0
    /\ \E e \in queue : e.kind = "headway" /\ e.time >= now

\* C19 as stated: with a tram capacity <= 0 the setup is refused: no tram
\* is created, no trip is launched and no stop is visited.
C19_CapacityRejected ==
    cfg.tram_capacity <= 0 =>
        /\ trams = << >>
        /\ launched = 0
        /\ \A st \in DOMAIN stops : stops[st].waiting_history = << >>

\* The events of a process left by an exception.
FailureKinds == {"failed", "arrive_failed"}

\* C20: a negative headway, dwell time or travel time is never scheduled:
\* the step that computes it pushes no timeout for it (neither in the past
\* nor clamped to the current time) but the failure of the process that
\* asked for it, which is due at once, keeps the run from halting at the
\* horizon and leads to the error state.
C20_NegativeDelay ==
    /\ [](\A e \in queue : e.time >= now)
    /\ [][ (Due("get") /\ gen.interval < 0) =>
              /\ \A e \in queue' : e.kind # "headway"
              /\ \E e \in queue' \ queue : e.kind = "failed" /\ e.time = now'
          ]_vars
    /\ [][ (Due("arrive_init") /\
               cfg.stop_time + LastLog(trams'[Trip.tram]).boarded
                             + LastLog(trams'[Trip.tram]).alighted < 0) =>
              /\ \A e \in queue' : ~(e.kind = "dwell" /\ e.trip = NextEvent.trip)
              /\ \E e \in queue' \ queue :
                    /\ e.kind = "arrive_failed"
                    /\ e.trip = NextEvent.trip
                    /\ e.time = now'
          ]_vars
    /\ [][ (Due("arrive_done") /\ Trip.i + 1 < cfg.stop_number /\
               \A v \in SpeedVariation :
                  calculate_travel_time(cfg,
                      HopDistance(cfg, Trip.direction, Trip.i + 1),
                      (now' \div (60 * TicksPerMinute)) % 24, v) < 0) =>
              /\ \A e \in queue' : ~(e.kind = "travel" /\ e.trip = NextEvent.trip)
              /\ \E e \in queue' \ queue :
                    /\ e.kind = "failed"
                    /\ e.trip = NextEvent.trip
                    /\ e.time = now'
          ]_vars
    /\ [][ (\E e \in queue : e.kind \in FailureKinds) =>
              status' # "halted" /\ now' = now ]_vars
    /\ ((\E e \in queue : e.kind \in FailureKinds) ~> (status = "error"))

\* A negative dwell time has ended the run: the visit failed, then the trip
\* that waited for it, then the run.
C20_Witness ==
    /\ status = "error"
    /\ cfg.stop_time < 0
    /\ last.kind = "failed"
    /\ last.trip # 0
    /\ \A e \in queue : e.kind # "dwell"

\* C18: the step that delivers an interrupt to a suspended trip process
\* ends that trip and touches nothing else: the run goes on, the
\* dispatcher, the other trips, the pool and the pending events stay as
\* they are.  From then on the trip is over: its position does not change,
\* no stop visit is added to the log of its tram, and the tram is neither
\* in the pool nor granted nor held by another trip.  The run still comes
\* to its end.
C18_Interrupt ==
    /\ [][ (Due("interrupt") /\ last' = NextEvent /\
             trips[NextEvent.trip].pc # "interrupted") =>
              /\ trips[NextEvent.trip].pc \in SuspendedAt
              /\ trips'[NextEvent.trip].pc = "interrupted"
              /\ \A tr \in DOMAIN trips \ {NextEvent.trip} : trips'[tr] = trips[tr]
              /\ DOMAIN trips' = DOMAIN trips
              /\ status' = "running"
              /\ gen' = gen
              /\ items' = items
              /\ get_queue' = get_queue
              /\ trams' = trams
              /\ stops' = stops
              /\ queue \ {NextEvent} \subseteq queue'
          ]_vars
    /\ [][ \A tr \in DOMAIN trips :
              trips[tr].pc = "interrupted" =>
                 /\ tr \in DOMAIN trips'
                 /\ trips'[tr] = trips[tr]
                 /\ trams'[trips[tr].tram] = trams[trips[tr].tram]
                 /\ returned'[trips[tr].tram] = returned[trips[tr].tram] ]_vars
    /\ [](\A tr \in DOMAIN trips :
             trips[tr].pc = "interrupted" =>
                /\ InPool(trips[tr].tram) = 0
                /\ Granted(trips[tr].tram) = 0
                /\ \A e \in queue : ~(e.kind = "put" /\ e.tram = trips[tr].tram)
                /\ \A t2 \in DOMAIN trips \ {tr} : trips[t2].tram # trips[tr].tram)
    /\ <>(status \in {"halted", "error"})

\* After a trip was interrupted another tram has come back from a round
\* trip and been sent out again by the dispatcher.
C18_Witness ==
    \E tr \in DOMAIN trips :
        /\ trips[tr].pc = "interrupted"
        /\ \E t2 \in DOMAIN trips :
              /\ t2 > tr + 1
              /\ trips[t2].pc \in SuspendedAt
              /\ trams[trips[t2].tram].stop_log # << >>
              /\ trams[trips[tr].tram].stop_log # << >>
              /\ LastLog(trams[trips[t2].tram]).time
                    > LastLog(trams[trips[tr].tram]).time + cfg.stop_time

\* --------------------------------------------------------------- alighting

\* a is the integer part of num / den (den > 0), as int() takes it: the
\* floor of a fraction that is not negative.
IsIntegerPart(a, num, den) ==
    IF num >= 0
    THEN a * den <= num /\ num < (a + 1) * den
    ELSE (a - 1) * den < num /\ num <= a * den

\* Not the terminal stop of the direction.
IsIntermediate(direction, stop_id, total_stops) ==
    ~ (\/ direction = "forward" /\ stop_id = total_stops
       \/ direction = "backward" /\ stop_id = 1)

\* C21 as stated: at a stop that is not the terminal of the direction the
\* number that alights is floor(p * rate), rate = min(0.8, 0.2 (0.4 at the
\* peak stop) + 0.3 * progress), where progress is 0 at the origin terminal
\* of the direction and 1 at its destination terminal, that is
\* (stop_id - 1) / (total_stops - 1) forward and
\* (total_stops - stop_id) / (total_stops - 1) backward.  Stated of the
\* last visit of every tram, whose onboard count on arrival was
\* passengers - boarded + alighted.
C21_ProgressFromOrigin ==
    \A t \in DOMAIN trams :
       (/\ trams[t].stop_log # << >>
        /\ cfg.stop_number >= 2
        /\ IsIntermediate(LastLog(trams[t]).direction,
                          LastLog(trams[t]).stop_id, cfg.stop_number)) =>
          LET N    == cfg.stop_number
              r    == LastLog(trams[t])
              p    == trams[t].passengers - r.boarded + r.alighted
              base == IF r.stop_id = cfg.peak_stop THEN 400 ELSE 200
              done == IF r.direction = "forward"
                      THEN r.stop_id - 1 ELSE N - r.stop_id
              rate == Min(800 * (N - 1), base * (N - 1) + 300 * done)
          IN  IsIntegerPart(r.alighted, p * rate, 1000 * (N - 1))

\* C21: at a stop that is not the terminal of the direction the number
\* that alights is the integer part of p * rate (its floor, p not being
\* negative), rate = min(0.8, 0.2 (0.4 at the peak stop) + 0.3 * progress),
\* where progress is stop_id / total_stops forward and
\* (total_stops - stop_id + 1) / total_stops backward: 1 / total_stops at
\* the origin terminal of the direction.  For every line of 2 to MaxStops
\* stops and every p up to MaxLoad, and on every such visit of a run.
C21_AlightRate ==
    /\ \A N \in 2..MaxStops : \A peak \in 1..MaxStops : \A p \in 0..MaxLoad :
          \A d \in {"forward", "backward"} : \A stop_id \in 1..N :
             IsIntermediate(d, stop_id, N) =>
                LET tram == [NewTram(MaxLoad) EXCEPT !.passengers = p,
                                                     !.direction = d]
                    base == IF stop_id = peak THEN 400 ELSE 200
                    done == IF d = "forward" THEN stop_id ELSE N - stop_id + 1
                    rate == Min(800 * N, base * N + 300 * done)
                IN  IsIntegerPart(alight_passengers(tram, stop_id, N, peak),
                                  p * rate, 1000 * N)
    /\ [][ (Due("arrive_init") /\
             IsIntermediate(Trip.direction,
                            StopAt(Trip.direction, Trip.i, cfg.stop_number),
                            cfg.stop_number)) =>
              LET N       == cfg.stop_number
                  stop_id == StopAt(Trip.direction, Trip.i, N)
                  base    == IF stop_id = cfg.peak_stop THEN 400 ELSE 200
                  done    == IF Trip.direction = "forward"
                             THEN stop_id ELSE N - stop_id + 1
                  rate    == Min(800 * N, base * N + 300 * done)
              IN  IsIntegerPart(LastLog(trams'[Trip.tram]).alighted,
                                trams[Trip.tram].passengers * rate, 1000 * N)
          ]_vars

\* Passengers have just left a tram at a stop in the middle of its leg.
C21_Witness ==
    /\ last.kind = "arrive_init"
    /\ \E t \in DOMAIN trams :
          /\ trams[t].stop_log # << >>
          /\ LastLog(trams[t]).time = now
          /\ IsIntermediate(LastLog(trams[t]).direction,
                            LastLog(trams[t]).stop_id, cfg.stop_number)
          /\ LastLog(trams[t]).alighted > 0
          /\ trams[t].passengers > 0

\* ------------------------------------------------------ one visit, one step

\* The number of a waiting-history sample.
Count(sample) == sample[2]

\* The time of a waiting-history sample.
Stamp(sample) == sample[1]

\* C22: a stop visit is one step.  The step that starts arrive_at_stop does
\* all of it: it reads the waiting count the visit before left at the stop,
\* adds the arrivals, lets passengers alight and board, writes both samples
\* and the log record and leaves the trip waiting for its dwell time (or
\* failed by a negative one); nothing else touches a stop, an onboard count
\* or a log.  So the two samples of a visit stay next to each other, the
\* waiting count of a stop is the second sample of its last visit, and of
\* two trams at the same stop at the same time the second starts from the
\* count the first left.
C22_OneStep ==
    /\ [][ Due("arrive_init") =>
             LET s == StopAt(Trip.direction, Trip.i, cfg.stop_number)
                 t == Trip.tram
                 r == LastLog(trams'[t])
             IN  /\ Len(trams'[t].stop_log) = Len(trams[t].stop_log) + 1
                 /\ Len(stops'[s].waiting_history)
                       = Len(stops[s].waiting_history) + 2
                 /\ r.waiting_before
                       = stops[s].waiting_passengers + (arrivals' - arrivals)
                 /\ r.time = NextEvent.time /\ r.stop_id = s
                 /\ trams'[t].passengers
                       = trams[t].passengers - r.alighted + r.boarded
                 /\ stops'[s].waiting_passengers = r.waiting_before - r.boarded
                 /\ stops'[s].last_tram_time = NextEvent.time
                 /\ \A s2 \in DOMAIN stops \ {s} : stops'[s2] = stops[s2]
                 /\ \A t2 \in DOMAIN trams \ {t} : trams'[t2] = trams[t2]
                 /\ \E e \in queue' :
                       /\ e.trip = NextEvent.trip
                       /\ e.kind \in {"dwell", "arrive_failed"}
                       /\ e.kind = "dwell" =>
                             e.time >= NextEvent.time
         ]_vars
    /\ [][ ~ Due("arrive_init") =>
             /\ stops' = stops
             /\ \A t \in DOMAIN trams :
                   /\ trams'[t].passengers = trams[t].passengers
                   /\ trams'[t].stop_log = trams[t].stop_log
                   /\ trams'[t].utilization_history = trams[t].utilization_history
         ]_vars
    /\ [](\A s \in DOMAIN stops :
             LET h == stops[s].waiting_history
             IN  /\ Len(h) % 2 = 0
                 /\ h # << >> =>
                       Count(h[Len(h)]) = stops[s].waiting_passengers
                 /\ \A j \in 1..(Len(h) \div 2) :
                       Stamp(h[2 * j - 1]) = Stamp(h[2 * j])
                 /\ \A j \in 1..(Len(h) \div 2 - 1) :
                       /\ Stamp(h[2 * j]) <= Stamp(h[2 * j + 1])
                       /\ Count(h[2 * j]) <= Count(h[2 * j + 1])
                       /\ Stamp(h[2 * j]) = Stamp(h[2 * j + 1]) =>
                             Count(h[2 * j]) = Count(h[2 * j + 1]))

\* Two trams were at the same stop at the same time; the first left
\* somebody waiting, whom the second took.
C22_Witness ==
    \E s \in DOMAIN stops : \E t1, t2 \in DOMAIN trams :
        LET h == stops[s].waiting_history
        IN  /\ t1 # t2
            /\ Len(h) >= 4
            /\ Stamp(h[Len(h) - 2]) = Stamp(h[Len(h) - 1])
            /\ Count(h[Len(h) - 2]) > 0
            /\ Count(h[Len(h)]) < Count(h[Len(h) - 1])
            /\ trams[t1].stop_log # << >> /\ trams[t2].stop_log # << >>
            /\ LastLog(trams[t1]).stop_id = s /\ LastLog(trams[t2]).stop_id = s
            /\ LastLog(trams[t1]).time = LastLog(trams[t2]).time
            /\ LastLog(trams[t2]).time = Stamp(h[Len(h)])
            /\ LastLog(trams[t2]).boarded > 0
            /\ LastLog(trams[t2]).waiting_before = Count(h[Len(h) - 2])

\* ------------------------------------------------------------------ dwell

\* The ticks a tram stands at the stop of a log record.
DwellOf(record) == cfg.stop_time + record.boarded + record.alighted

\* C23: after a stop visit the trip stays suspended for exactly
\* stop_time + 0.05 * (boarded + alighted) minutes, the counts being those
\* of the visit: while it waits, the dwell timeout is pending at the visit
\* time plus that delay and the trip does nothing; the timeout fires at that
\* time and tram_process takes its next step (travel, turnaround or
\* release) at that same time.
C23_Dwell ==
    /\ [](\A tr \in DOMAIN trips :
             trips[tr].pc = "dwell" =>
                LET r == LastLog(trams[trips[tr].tram])
                IN  /\ \E e \in queue :
                          /\ e.kind = "dwell" /\ e.trip = tr
                          /\ e.time = r.time + DwellOf(r)
                    /\ \A e \in queue :
                          e.trip = tr => e.kind = "dwell")
    /\ [][ (Due("dwell") \/ Due("arrive_done")) =>
              LET r == LastLog(trams[Trip.tram])
              IN  /\ NextEvent.time = r.time + DwellOf(r)
                  /\ now' = r.time + DwellOf(r)
                  /\ trams' = trams /\ stops' = stops
         ]_vars
    /\ [][ Due("arrive_done") =>
              /\ trips[NextEvent.trip].pc = "visited"
              /\ trips'[NextEvent.trip].pc
                    \in {"travel", "turnaround", "put", "failed"}
              /\ \A e \in queue' \ queue :
                    /\ e.trip = NextEvent.trip
                    /\ e.kind \in {"travel", "turnaround", "put", "failed"}
                    /\ e.kind = "turnaround" =>
                          e.time = now' + TurnaroundTime
                    /\ e.kind = "put" => e.time = now'
         ]_vars

\* A tram has stood longer than stop_time for those who boarded, and its
\* trip has gone on.
C23_Witness ==
    /\ last.kind = "arrive_done"
    /\ trips[last.trip].pc \in {"travel", "turnaround", "put"}
    /\ LET r == LastLog(trams[trips[last.trip].tram])
       IN  /\ r.boarded + r.alighted > 0
           /\ now = r.time + DwellOf(r)
           /\ now > r.time + cfg.stop_time

\* ------------------------------------------------------ what a visit writes

\* Number of visits of stop s logged by the trams.
VisitsOf(s) ==
    SumOver([t \in DOMAIN trams |->
                Cardinality({k \in 1..Len(trams[t].stop_log) :
                                trams[t].stop_log[k].stop_id = s})],
            DOMAIN trams)

\* C24: a stop visit appends exactly two samples to the waiting history of
\* its stop, both with the time of the visit, the first with the waiting
\* count after the new arrivals and before boarding, the second with the
\* count after boarding, so that first - second = boarded; it appends one
\* record to the stop log of the tram and one value to its utilization
\* history.  Hence the history of a stop is twice as long as the number of
\* its visits, and the log and the utilization history of a tram are of
\* equal length.
C24_VisitRecords ==
    /\ [][ Due("arrive_init") =>
             LET s  == StopAt(Trip.direction, Trip.i, cfg.stop_number)
                 t  == Trip.tram
                 h  == stops[s].waiting_history
                 h1 == stops'[s].waiting_history
                 r  == LastLog(trams'[t])
             IN  /\ Len(h1) = Len(h) + 2
                 /\ SubSeq(h1, 1, Len(h)) = h
                 /\ h1[Len(h) + 1] = << NextEvent.time,
                        stops[s].waiting_passengers + (arrivals' - arrivals) >>
                 /\ h1[Len(h) + 2] = << NextEvent.time,
                                        stops'[s].waiting_passengers >>
                 /\ Count(h1[Len(h) + 1]) - Count(h1[Len(h) + 2]) = r.boarded
                 /\ trams'[t].stop_log = Append(trams[t].stop_log, r)
                 /\ r.time = NextEvent.time
                 /\ trams'[t].utilization_history
                       = Append(trams[t].utilization_history,
                                utilization(trams'[t]))
         ]_vars
    /\ [](\A s \in DOMAIN stops :
             Len(stops[s].waiting_history) = 2 * VisitsOf(s))
    /\ [](\A t \in DOMAIN trams :
             Len(trams[t].stop_log) = Len(trams[t].utilization_history))

\* A stop has been visited three times, the last time by a tram that took
\* somebody along and left somebody behind.
C24_Witness ==
    \E s \in DOMAIN stops :
        LET h == stops[s].waiting_history
        IN  /\ VisitsOf(s) >= 3
            /\ Len(h) = 2 * VisitsOf(s)
            /\ Count(h[Len(h) - 1]) > Count(h[Len(h)])
            /\ Count(h[Len(h)]) > 0
            /\ Stamp(h[Len(h)]) = now

\* ----------------------------------------------------------------- travel

\* The trip of the travel timeout e.
Hop(e) == trips[e.trip]

\* The ticks between the end of the last dwell of the tram of trip tr and
\* the travel timeout e of that trip.
HopDelay(e) ==
    LET r == LastLog(trams[Hop(e).tram])
    IN  e.time - (r.time + DwellOf(r))

\* Configurations that differ in what calculate_travel_time reads.
TravelConfigs ==
    { [BaseConfig EXCEPT !.flow_speed = f,
                         !.road_loads = {<<0, l>>},
                         !.acceleration_time = a] :
        f \in {0, 8, 40}, l \in {0, 50, 100}, a \in {0, 10} }

\* The lengths of a hop, in metres.
HopLengths == {250 * k : k \in 0..MaxHop}

\* C25 as stated: the delay of every hop, those of distance 0 included, is
\* at least acceleration_time (and at most acceleration_time plus 12
\* minutes per kilometre).
C25_AtLeastAcceleration ==
    \A e \in queue :
        e.kind = "travel" =>
           /\ HopDelay(e) >= cfg.acceleration_time
           /\ 1000 * (HopDelay(e) - cfg.acceleration_time)
                 <= 12 * TicksPerMinute
                       * HopDistance(cfg, Hop(e).direction, Hop(e).i)

\* C25: for a hop of positive distance the travel time is
\* acceleration_time + (distance / 1000) * (60 / effective_speed) minutes,
\* effective_speed = max(5.0, flow_speed * (1 - load) * variation), hence
\* at least acceleration_time and at most acceleration_time plus 12 minutes
\* per kilometre; for a hop of distance 0 (or less, or not configured) it
\* is 0, without the acceleration time.  The trip is suspended for that
\* time before every stop but the first of a leg, which it visits at once;
\* a negative travel time ends the run instead.  For the configurations of
\* TravelConfigs, every hop of HopLengths and both ends of the speed
\* variation (in whole ticks, rounded down), and on every hop of a run.
C25_TravelTime ==
    /\ \A c \in TravelConfigs : \A d \in HopLengths : \A hour \in 0..1 :
          \A v \in SpeedVariation :
             LET tt    == calculate_travel_time(c, d, hour, v)
                 load  == Lookup(c.road_loads, hour, DefaultLoad)
                 speed == Max(50000, c.flow_speed * (100 - load) * v)
             IN  IF d <= 0
                 THEN tt = 0
                 ELSE /\ IsIntegerPart(tt - c.acceleration_time,
                                       d * 60 * TicksPerMinute * 10, speed)
                      /\ tt >= c.acceleration_time
                      /\ 1000 * (tt - c.acceleration_time)
                            <= 12 * TicksPerMinute * d
    /\ [](\A e \in queue :
             e.kind = "travel" =>
                LET d == HopDistance(cfg, Hop(e).direction, Hop(e).i)
                IN  /\ Hop(e).pc = "travel"
                    /\ Hop(e).i > 0
                    /\ HopDelay(e) >= 0
                    /\ IF d <= 0
                       THEN HopDelay(e) = 0
                       ELSE /\ HopDelay(e) >= cfg.acceleration_time
                            /\ 1000 * (HopDelay(e) - cfg.acceleration_time)
                                  <= 12 * TicksPerMinute * d)
    /\ [][ (Due("arrive_done") /\ Trip.i + 1 < cfg.stop_number) =>
              \/ \E tt \in TravelTimes(cfg,
                              HopDistance(cfg, Trip.direction, Trip.i + 1),
                              HourOf(NextEvent.time)) :
                    /\ tt >= 0
                    /\ \E e \in queue' \ queue :
                          /\ e.kind = "travel" /\ e.trip = NextEvent.trip
                          /\ e.time = NextEvent.time + tt
              \/ /\ \E tt \in TravelTimes(cfg,
                              HopDistance(cfg, Trip.direction, Trip.i + 1),
                              HourOf(NextEvent.time)) : tt < 0
                 /\ trips'[NextEvent.trip].pc = "failed"
         ]_vars
    /\ [][ (Due("trip_init") \/ Due("turnaround")) =>
              \A e \in queue' \ queue :
                 e.kind = "arrive_init" /\ e.time = NextEvent.time ]_vars

\* A tram is on a hop of positive length, for longer than the acceleration
\* time.
C25_Witness ==
    \E e \in queue :
        /\ e.kind = "travel"
        /\ HopDistance(cfg, Hop(e).direction, Hop(e).i) > 0
        /\ cfg.acceleration_time > 0
        /\ HopDelay(e) > cfg.acceleration_time
        /\ Len(trams[Hop(e).tram].stop_log) >= 2

\* ----------------------------------------------------------- new arrivals

\* The times of the visits of stop s logged by the trams.
VisitTimes(s) ==
    UNION { { trams[t].stop_log[k].time :
                k \in { j \in 1..Len(trams[t].stop_log) :
                           trams[t].stop_log[j].stop_id = s } } :
            t \in DOMAIN trams }

\* The greatest element of a non-empty set of numbers.
Latest(S) == CHOOSE x \in S : \A y \in S : y <= x

\* C26: the number of new arrivals of a visit is never negative, and it is
\* 0 when the intensity of the stop for the hour is 0 and when no time has
\* passed since the last visit of the stop.  That time is counted from
\* last_tram_time, which is the time of the latest visit of the stop by
\* any tram in either direction, and 0 for a stop not visited yet.  For
\* every intensity of -60..120 per hour and every elapsed time of -1..40
\* ticks, and on every visit of a run.
C26_NewArrivals ==
    /\ \A intensity \in {-60, 0, 60, 120} : \A elapsed \in -1..40 :
          \A n \in get_new_passengers(intensity, elapsed) :
             /\ n >= 0
             /\ (intensity = 0 \/ elapsed = 0) => n = 0
    /\ [][ Due("arrive_init") =>
             LET s == StopAt(Trip.direction, Trip.i, cfg.stop_number)
                 n == LastLog(trams'[Trip.tram]).waiting_before
                         - stops[s].waiting_passengers
             IN  /\ n >= 0
                 /\ n = arrivals' - arrivals
                 /\ get_intensity(cfg, s, HourOf(NextEvent.time)) = 0 => n = 0
                 /\ NextEvent.time = stops[s].last_tram_time => n = 0
                 /\ stops'[s].last_tram_time = NextEvent.time
         ]_vars
    /\ [](\A s \in DOMAIN stops :
             stops[s].last_tram_time
                = IF VisitTimes(s) = {} THEN 0 ELSE Latest(VisitTimes(s)))

\* Passengers have come to a stop since the visit before, which was by
\* another tram.
C26_Witness ==
    /\ last.kind = "arrive_init"
    /\ \E s \in DOMAIN stops : \E t1, t2 \in DOMAIN trams :
          LET h == stops[s].waiting_history
          IN  /\ t1 # t2
              /\ Len(h) >= 4
              /\ trams[t1].stop_log # << >>
              /\ LastLog(trams[t1]).time = now
              /\ LastLog(trams[t1]).stop_id = s
              /\ Count(h[Len(h) - 1]) > Count(h[Len(h) - 2])
              /\ Stamp(h[Len(h) - 2]) < now
              /\ \E k \in 1..Len(trams[t2].stop_log) :
                    /\ trams[t2].stop_log[k].stop_id = s
                    /\ trams[t2].stop_log[k].time = Stamp(h[Len(h) - 2])
              /\ \A k \in 1..(Len(trams[t1].stop_log) - 1) :
                    trams[t1].stop_log[k].stop_id = s =>
                       trams[t1].stop_log[k].time < Stamp(h[Len(h) - 2])

\* ------------------------------------------------------ trams in the pool

\* C27 as stated: a tram that is in the pool has nobody on board.
C27_PoolTramsEmpty ==
    \A t \in DOMAIN trams : InPool(t) > 0 => trams[t].passengers = 0

\* C27: a tram that is in the pool has not made a visit yet and has nobody
\* on board, or its last visit was the one of stop 1 that ended its
\* backward leg, where everybody alighted and those waiting boarded: it
\* holds those who boarded there.  The start of its next trip leaves them
\* on board, so the first visit of that trip finds them there.
C27_PoolTrams ==
    /\ [](\A t \in DOMAIN trams :
             InPool(t) > 0 =>
                IF trams[t].stop_log = << >>
                THEN trams[t].passengers = 0
                ELSE /\ LastLog(trams[t]).stop_id = 1
                     /\ LastLog(trams[t]).direction = "backward"
                     /\ trams[t].passengers = LastLog(trams[t]).boarded)
    /\ [][ (Due("get") \/ Due("trip_init") \/ Due("put")) =>
              \A t \in DOMAIN trams :
                 trams'[t].passengers = trams[t].passengers ]_vars
    /\ [][ (Due("arrive_init") /\ Trip.direction = "forward" /\ Trip.i = 0
               /\ trams[Trip.tram].stop_log # << >>) =>
              trams[Trip.tram].passengers
                 = LastLog(trams[Trip.tram]).boarded ]_vars

\* A tram has started its second trip with a passenger who boarded at
\* stop 1 when its first trip ended and waited in the pool with it.
C27_Witness ==
    /\ last.kind = "arrive_init"
    /\ \E t \in DOMAIN trams :
          LET log == trams[t].stop_log
          IN  /\ returned[t] > 0
              /\ trams[t].total_trips = 2
              /\ trams[t].capacity > 0
              /\ Len(log) >= 2
              /\ log[Len(log)].time = now
              /\ log[Len(log)].direction = "forward"
              /\ log[Len(log)].stop_id = 1
              /\ log[Len(log) - 1].direction = "backward"
              /\ log[Len(log) - 1].stop_id = 1
              /\ log[Len(log) - 1].boarded > 0
              /\ trams[t].passengers
                    = log[Len(log) - 1].boarded
                         - log[Len(log)].alighted + log[Len(log)].boarded

\* ------------------------------------------------------- one trip per tram

\* C28: no tram is on two trips at once.  At every moment each tram is
\* held by at most one tram_process that has been created and has not
\* ended, so there are never more such processes than trams.  A
\* tram_process is created only by the dispatcher when a get is granted,
\* for the tram that get took out of the pool, which no trip holds then.
C28_OneTripPerTram ==
    /\ [](\A tram \in DOMAIN trams : OnTrip(tram) <= 1)
    /\ [](Cardinality(DOMAIN trips) <= FleetSize)
    /\ [][ Due("get") =>
             /\ OnTrip(NextEvent.tram) = 0
             /\ InPool(NextEvent.tram) = 0
             /\ DOMAIN trips' = DOMAIN trips \cup {launched + 1}
             /\ launched + 1 \notin DOMAIN trips
             /\ trips'[launched + 1].tram = NextEvent.tram
             /\ \A tr \in DOMAIN trips : trips'[tr] = trips[tr]
         ]_vars
    /\ [][ ~ Due("get") => DOMAIN trips' \subseteq DOMAIN trips ]_vars

\* The whole fleet is out, one tram of it on its second trip.
C28_Witness ==
    /\ Cardinality(DOMAIN trips) = FleetSize
    /\ \A tram \in DOMAIN trams : OnTrip(tram) = 1
    /\ \E tr \in DOMAIN trips :
          /\ trams[trips[tr].tram].total_trips = 2
          /\ returned[trips[tr].tram] = 1
          /\ trips[tr].pc \in SuspendedAt

\* ------------------------------------------------- passengers served

RECURSIVE SumBoarded(_)
\* Sum of the boarded counts of a stop log.
SumBoarded(log) ==
    IF log = << >> THEN 0
    ELSE log[Len(log)].boarded + SumBoarded(SubSeq(log, 1, Len(log) - 1))

\* Sum over the trams of stats.passengers_served.
ServedByTrams ==
    SumOver([t \in DOMAIN trams |-> trams[t].passengers_served], DOMAIN trams)

\* Sum over the stops of passengers_served.
ServedAtStops ==
    SumOver([s \in DOMAIN stops |-> stops[s].passengers_served], DOMAIN stops)

\* Sum of boarded over all the visits logged.
TotalBoarded ==
    SumOver([t \in DOMAIN trams |-> SumBoarded(trams[t].stop_log)], DOMAIN trams)

\* C29 as stated: the three counters of passengers served agree in every
\* state: the total of the run, the sum over the trams and the sum over
\* the stops are each the sum of boarded over all the visits so far.
C29_ServedAgree ==
    /\ total_passengers_served = TotalBoarded
    /\ ServedByTrams = TotalBoarded
    /\ ServedAtStops = TotalBoarded

\* --------------------------------------------------------------- progress

\* The run is over: the horizon is reached or an exception has ended it.
Ended == status \in {"halted", "error"}

\* How far a tram_process is within one stop of its sequence.
Phase(pc) ==
    CASE pc = "visit"   -> 2
      [] pc = "dwell"   -> 3
      [] pc = "visited" -> 4
      [] pc \in {"travel", "turnaround", "put"} -> 1
      [] OTHER -> 0

\* How far a tram_process is in its round trip: 0 when created,
\* 8 * stop_number + 5 when it has put the tram back.
Position(trip) ==
    (IF trip.direction = "backward" THEN 4 * cfg.stop_number + 4 ELSE 0)
       + 4 * trip.i + Phase(trip.pc)

\* The events of the heap that belong to tram_process tr.
Pending(tr) == {e \in queue : e.trip = tr}

\* C30: but for the end of the run (the horizon, or an exception), and
\* with no interrupts, every trip launched puts its tram back into the
\* pool after finitely many steps, and a dispatcher that waits at an empty
\* pool is granted a tram.  A live tram_process always has exactly one
\* event pending, each of its steps takes it further along a round trip of
\* 8 * stop_number + 5 positions, of which the last is the put; a put
\* processed while the dispatcher waits grants it the tram at that very
\* step, and the dispatcher waits only when every tram is out on a trip.
\* With a fair event loop every tram that is out is put back, and every
\* waiting get is granted, unless the run ends first.
C30_Progress ==
    /\ [](\A tr \in DOMAIN trips :
             /\ trips[tr].pc # "failed" => Cardinality(Pending(tr)) = 1
             /\ Position(trips[tr]) \in 0..(8 * cfg.stop_number + 5)
             /\ trips[tr].pc = "put" <=>
                   Position(trips[tr]) = 8 * cfg.stop_number + 5)
    /\ [][ \A tr \in DOMAIN trips :
             \/ trips[tr].pc = "failed"
             \/ Pending(tr) \subseteq queue'
             \/ tr \notin DOMAIN trips' /\ trips[tr].pc = "put"
             \/ /\ tr \in DOMAIN trips'
                /\ \/ Position(trips'[tr]) > Position(trips[tr])
                   \/ trips'[tr].pc = "failed"
                   \/ trips'[tr] = trips[tr] /\ NextEvent.kind = "arrive_init"
         ]_vars
    /\ [](get_queue # << >> =>
             /\ Len(get_queue) = 1
             /\ gen.pc = "get"
             /\ \A t \in DOMAIN trams : Granted(t) = 0
             /\ \A t \in DOMAIN trams : InPool(t) = 1 =>
                   \E e \in queue : e.kind = "put" /\ e.tram = t)
    /\ [][ (Due("put") /\ get_queue # << >>) =>
              /\ get_queue' = << >>
              /\ InPool(NextEvent.tram) = 1
              /\ \A k \in 1..Len(items') : items'[k] # NextEvent.tram
              /\ \E e \in queue' \ queue :
                    e.kind = "get" /\ e.tram = NextEvent.tram
         ]_vars
    /\ \A t \in 1..FleetSize :
          (Riding(t) = 1) ~> (Riding(t) = 0 \/ Ended)
    /\ (get_queue # << >>) ~> (get_queue = << >> \/ Ended)

\* The dispatcher has waited at the empty pool and has just been granted
\* the tram a trip put back, while the run goes on.
C30_Witness ==
    /\ status = "running"
    /\ last.kind = "put"
    /\ last.trip # 0
    /\ gen.pc = "get"
    /\ get_queue = << >>
    /\ Granted(last.tram) = 1
    /\ returned[last.tram] >= 1
    /\ last.trip \notin DOMAIN trips
    /\ now > 0

\* ------------------------------------------------------ order of the pool

\* The time tram entered the pool: 0 for a tram that create_initial_trams
\* put there, and for one a trip put back the end of the dwell of its last
\* visit.
EnteredAt(tram) ==
    IF returned[tram] = 0 THEN 0
    ELSE LastLog(trams[tram]).time + DwellOf(LastLog(trams[tram]))

\* Tram a entered the pool no later than tram b: the trams of the initial
\* fleet in the order of their ids and before every tram put back.
EnteredBefore(a, b) ==
    \/ returned[a] = 0 /\ returned[b] = 0 /\ a < b
    \/ returned[a] = 0 /\ returned[b] > 0
    \/ returned[a] > 0 /\ returned[b] > 0 /\ EnteredAt(a) <= EnteredAt(b)

\* C31: trams leave the pool in the order they entered it.  The items of
\* the pool are in the order of entry (the initial fleet by id, then the
\* trams put back by the time of their put); every grant hands out the
\* first of them and leaves the others in place, and every put adds its
\* tram at the end.  The first FleetSize launches use the trams 1, 2, ...
\* in that order.
C31_PoolOrder ==
    /\ [](\A j, k \in 1..Len(items) :
             j < k => EnteredBefore(items[j], items[k]))
    /\ [][ \A e \in queue' \ queue :
              e.kind = "get" =>
                 /\ items # << >>
                 /\ e.tram = items[1]
                 /\ items' = Tail(items)
                 /\ \A k \in 1..Len(items) : EnteredBefore(e.tram, items[k])
                                                \/ items[k] = e.tram
         ]_vars
    /\ [][ status = "init" => items' = [t \in 1..FleetSize |-> t] ]_vars
    /\ [][ \A e \in queue' \ queue :
              (e.kind = "put" /\ e.trip # 0) =>
                 /\ items' = Append(items, e.tram)
                 /\ returned'[e.tram] = returned[e.tram] + 1
         ]_vars
    /\ [][ (Due("get") /\ launched < FleetSize) =>
              /\ NextEvent.tram = launched + 1
              /\ trips'[launched + 1].tram = launched + 1 ]_vars

\* Both trams have been put back, at different times; the dispatcher has
\* just been granted the one put back first and the other stays.
C31_Witness ==
    /\ status = "running"
    /\ Len(items) >= 1
    /\ returned[items[1]] >= 1
    /\ \E t \in DOMAIN trams :
          /\ Granted(t) = 1
          /\ returned[t] >= 1
          /\ t > items[1]
          /\ EnteredAt(t) < EnteredAt(items[1])

\* ------------------------------------------------- time between launches

\* Index, in the stop log of its tram, of the first visit of the trip tr:
\* the trips the tram made before are complete.
FirstVisit(tr) ==
    2 * cfg.stop_number * (trams[trips[tr].tram].total_trips - 1) + 1

\* The first visit of trip tr is logged.
HasStarted(tr) ==
    /\ trips[tr].pc # "init"
    /\ trams[trips[tr].tram].total_trips >= 1
    /\ Len(trams[trips[tr].tram].stop_log) >= FirstVisit(tr)

\* The time trip tr was launched: the tram_process starts, and visits its
\* first stop, at the time it is created.
LaunchedAt(tr) == trams[trips[tr].tram].stop_log[FirstVisit(tr)].time

\* The dispatcher waits for its request to be granted by a put.
Waits == get_queue # << >>

\* C32: the first trip is launched at time 0, and two consecutive launches
\* are at least the headway of the earlier one apart: exactly the headway
\* when the pool holds a tram at the time of the request, more only when
\* the dispatcher has to wait for a put.  A launch at time T (the step of
\* the get event) creates the trip, which starts at T, and sets the next
\* request to T plus the headway read for this launch; a request made when
\* the pool holds a tram is granted at its own time, another one waits and
\* is granted at the time of a put processed later; the dispatcher has at
\* most one of a headway, a grant and a waiting request.  So of two trips
\* launched one after the other the second starts at least the headway
\* after the first (stated for the configurations of one headway rule).
C32_LaunchTimes ==
    /\ [][ (Due("get") /\ launched = 0) => NextEvent.time = 0 ]_vars
    /\ [][ Due("get") =>
             /\ now' = NextEvent.time
             /\ launched' = launched + 1
             /\ \E e \in queue' \ queue :
                   /\ e.kind = "trip_init" /\ e.trip = launched'
                   /\ e.time = NextEvent.time
             /\ gen.interval >= 0 =>
                   /\ gen'.pc = "headway"
                   /\ \E e \in queue' \ queue :
                         /\ e.kind = "headway"
                         /\ e.time = NextEvent.time
                                        + gen.interval * TicksPerMinute
         ]_vars
    /\ [][ (Due("headway") \/ Due("gen_init")) =>
             /\ now' = NextEvent.time
             /\ launched' = launched
             /\ IF items # << >>
                THEN /\ ~ Waits'
                     /\ \E e \in queue' \ queue :
                           e.kind = "get" /\ e.time = NextEvent.time
                ELSE /\ Waits'
                     /\ \A e \in queue' : e.kind # "get"
         ]_vars
    /\ [][ \A e \in queue' \ queue :
              e.kind = "get" =>
                 /\ e.time = now'
                 /\ \/ Due("headway") \/ Due("gen_init")
                    \/ Due("put") /\ Waits /\ now' >= now
         ]_vars
    /\ [][ launched' # launched => Due("get") ]_vars
    /\ [](status = "running" =>
            Cardinality({e \in queue : e.kind \in {"headway", "get", "gen_init"}})
               + (IF Waits THEN 1 ELSE 0) <= 1)
    /\ [](Len(cfg.bus_interval) = 1 =>
             \A a, b \in DOMAIN trips :
                (b = a + 1 /\ HasStarted(a) /\ HasStarted(b)) =>
                   LaunchedAt(b) - LaunchedAt(a)
                      >= cfg.bus_interval[1][2] * TicksPerMinute)

\* The second trip was launched one headway after the first, the third
\* later than one headway after the second: the dispatcher had to wait for
\* the first tram to come back.
C32_Witness ==
    /\ Len(cfg.bus_interval) = 1
    /\ cfg.bus_interval[1][2] > 0
    /\ {2, 3} \subseteq DOMAIN trips
    /\ HasStarted(2) /\ HasStarted(3)
    /\ LaunchedAt(2) = cfg.bus_interval[1][2] * TicksPerMinute
    /\ LaunchedAt(3) - LaunchedAt(2) > cfg.bus_interval[1][2] * TicksPerMinute
    /\ trams[trips[3].tram].total_trips = 2

\* ------------------------------------------------------ what a visit leaves

\* C33: the visit of stop S by tram T changes stop S, tram T (its onboard
\* count, its counter of passengers served, its utilization history and
\* its log; not its capacity, direction or trip count) and the totals of
\* the run, and nothing else: every other stop and every other tram, the
\* pool with its waiting requests, the dispatcher, the launch count and
\* the other trips stay as they are.
C33_VisitFrame ==
    [][ Due("arrive_init") =>
          LET S == StopAt(Trip.direction, Trip.i, cfg.stop_number)
              T == Trip.tram
          IN  /\ DOMAIN stops' = DOMAIN stops
              /\ DOMAIN trams' = DOMAIN trams
              /\ \A s \in DOMAIN stops \ {S} : stops'[s] = stops[s]
              /\ \A t \in DOMAIN trams \ {T} : trams'[t] = trams[t]
              /\ stops'[S] # stops[S]
              /\ trams'[T] # trams[T]
              /\ trams'[T].capacity = trams[T].capacity
              /\ trams'[T].direction = trams[T].direction
              /\ trams'[T].total_trips = trams[T].total_trips
              /\ items' = items
              /\ get_queue' = get_queue
              /\ put_queue' = put_queue
              /\ gen' = gen
              /\ launched' = launched
              /\ returned' = returned
              /\ cfg' = cfg
              /\ status' = status
              /\ DOMAIN trips' = DOMAIN trips
              /\ \A tr \in DOMAIN trips \ {NextEvent.trip} :
                    trips'[tr] = trips[tr]
              /\ trips'[NextEvent.trip].tram = T
              /\ \A e \in queue \ {NextEvent} : e \in queue'
      ]_vars

\* A tram has taken passengers along at a stop while the other tram, with
\* visits of its own in its log, was in the pool, and the other stop had
\* been visited.
C33_Witness ==
    /\ last.kind = "arrive_init"
    /\ \E t, t2 \in DOMAIN trams : \E s2 \in DOMAIN stops :
          /\ t # t2
          /\ trams[t].stop_log # << >>
          /\ LastLog(trams[t]).time = now
          /\ LastLog(trams[t]).boarded > 0
          /\ LastLog(trams[t]).stop_id # s2
          /\ stops[s2].waiting_history # << >>
          /\ InPool(t2) = 1
          /\ trams[t2].stop_log # << >>

\* -------------------------------------------------------- recorded times

\* The times of a list of records or samples do not decrease.
Ordered(times) ==
    \A j, k \in 1..Len(times) : j < k => times[j] <= times[k]

\* C34: the recorded times are in order.  The times of the stop log of
\* every tram and those of the waiting history of every stop do not
\* decrease; the last service time of a stop never decreases and is never
\* later than the clock, so the elapsed time from which a visit draws its
\* new arrivals is never negative.
C34_TimesOrdered ==
    /\ [](\A t \in DOMAIN trams :
             Ordered([k \in 1..Len(trams[t].stop_log) |->
                         trams[t].stop_log[k].time]))
    /\ [](\A s \in DOMAIN stops :
             /\ Ordered([k \in 1..Len(stops[s].waiting_history) |->
                            Stamp(stops[s].waiting_history[k])])
             /\ stops[s].last_tram_time <= now
             /\ stops[s].last_tram_time >= 0)
    /\ [][ /\ now' >= now
           /\ \A s \in DOMAIN stops :
                 stops'[s].last_tram_time >= stops[s].last_tram_time ]_vars
    /\ [][ Due("arrive_init") =>
             LET s == StopAt(Trip.direction, Trip.i, cfg.stop_number)
             IN  /\ NextEvent.time - stops[s].last_tram_time >= 0
                 /\ NextEvent.time >= now
                 /\ stops'[s].last_tram_time = now' ]_vars

\* A stop has been visited at three different times, the last of them by
\* a tram whose log has three different times too.
C34_Witness ==
    /\ last.kind = "arrive_init"
    /\ \E s \in DOMAIN stops : \E t \in DOMAIN trams :
          LET h   == stops[s].waiting_history
              log == trams[t].stop_log
          IN  /\ Len(h) >= 6 /\ Len(log) >= 3
              /\ Stamp(h[Len(h) - 4]) < Stamp(h[Len(h) - 2])
              /\ Stamp(h[Len(h) - 2]) < Stamp(h[Len(h)])
              /\ Stamp(h[Len(h)]) = now
              /\ stops[s].last_tram_time = now
              /\ log[Len(log)].time = now
              /\ log[Len(log)].stop_id = s
              /\ log[Len(log) - 2].time < log[Len(log) - 1].time
              /\ log[Len(log) - 1].time < log[Len(log)].time

\* ------------------------------------------------------ distance of a hop

\* A line of N stops where the entry of stop j is 100 * j metres, that of
\* stop 1 included.
LineOf(N) ==
    [BaseConfig EXCEPT !.stop_number = N,
                       !.distance = {<<j, 100 * j>> : j \in 1..N}]

\* The distance entry of a configuration for the pair of adjacent stops k
\* and k + 1: the one of stop k + 1.
Between(c, k) == Lookup(c.distance, k + 1, 0)

\* C35: the hop between the adjacent stops k and k + 1 has the same
\* distance in both directions, the entry of stop k + 1: on a line of 2 to
\* MaxStops stops with a different entry for every stop, the forward hop
\* that ends at stop k + 1 and the backward hop that ends at stop k both
\* take the entry of stop k + 1, and none takes the entry of stop 1; in a
\* run every travel time set when a trip leaves a stop is one that
\* calculate_travel_time gives for the entry of the higher of the two
\* stops of the hop.
C35_HopDistance ==
    /\ \A N \in 2..MaxStops : \A k \in 1..(N - 1) :
          /\ StopAt("forward", k, N) = k + 1
          /\ StopAt("backward", N - k, N) = k
          /\ HopDistance(LineOf(N), "forward", k) = 100 * (k + 1)
          /\ HopDistance(LineOf(N), "backward", N - k) = 100 * (k + 1)
          /\ HopDistance(LineOf(N), "forward", k) # Lookup(LineOf(N).distance, 1, 0)
          /\ HopDistance(LineOf(N), "backward", N - k)
                # Lookup(LineOf(N).distance, 1, 0)
    /\ [][ (Due("arrive_done") /\ Trip.i + 1 < cfg.stop_number) =>
              LET from == StopAt(Trip.direction, Trip.i, cfg.stop_number)
                  to   == StopAt(Trip.direction, Trip.i + 1, cfg.stop_number)
                  k    == Min(from, to)
              IN  /\ Max(from, to) = k + 1
                  /\ \A e \in queue' \ queue :
                        e.kind = "travel" =>
                           e.time - NextEvent.time
                              \in TravelTimes(cfg, Between(cfg, k),
                                              HourOf(NextEvent.time))
         ]_vars

\* A tram is on its way back from stop 2 to stop 1, for as long a hop as
\* the one that took it from stop 1 to stop 2.
C35_Witness ==
    \E e \in queue :
        /\ e.kind = "travel"
        /\ Hop(e).direction = "backward"
        /\ StopAt("backward", Hop(e).i, cfg.stop_number) = 1
        /\ Between(cfg, 1) > 0
        /\ HopDelay(e) > cfg.acceleration_time
        /\ LET log == trams[Hop(e).tram].stop_log
           IN  /\ Len(log) >= 2 * cfg.stop_number - 1
               /\ \E j \in 1..(Len(log) - 1) :
                     /\ log[j].stop_id = 1 /\ log[j].direction = "forward"
                     /\ log[j + 1].stop_id = 2
                     /\ log[j + 1].time - (log[j].time + DwellOf(log[j]))
                           > cfg.acceleration_time

====
